---- MODULE Spec2Model ----
(***************************************************************************)
(* alloc-checked: fallible Vec and VecDeque over an injected allocator.    *)
(*                                                                         *)
(* The wrappers in src/src/vec.rs and src/src/vec_deque.rs delegate to the *)
(* standard library's Vec / VecDeque / RawVec; the operators below spell   *)
(* out what those delegated calls do (amortized growth, Allocator::grow as *)
(* allocate + copy + deallocate, the ring-buffer index arithmetic), so that*)
(* the wrappers' contracts can be checked against a byte-budget allocator  *)
(* (WatermarkAllocator, src/src/testing.rs).                               *)
(*                                                                         *)
(* The containers are built from clones of one WatermarkAllocator, which   *)
(* share its in-use counter; one container is alive at a time, next to    *)
(* which the clone specifications keep what try_clone returned.            *)
(***************************************************************************)
EXTENDS Integers, Sequences, FiniteSets, TLC

\* ---------------------------------------------------------------- bounds
\* Byte budget handed to WatermarkAllocator::new.
Watermark == 24
\* Largest `additional` passed to reserve (besides usize::MAX).
MaxAdd == 3
\* Largest capacity requested from with_capacity_in.
MaxCapReq == 7
\* Longest sequence an iterator handed to extend yields.
MaxIterLen == 2
\* Largest lower-bound size hint an iterator reports.
MaxHint == 3
\* Width of the machine word (usize) of the model.
WordBits == 16
\* Longest run of single-element pushes whose allocations are counted.
MaxPushes == 16
\* Threads that call allocate / deallocate on clones of one allocator.
NumThreads == 3
\* Most blocks one thread holds at a time.
MaxHeld == 2

\* ------------------------------------------------------------- constants
\* size_of::<i32>(), the element type of the tests.
ElemSize == 4
\* Option::None / a slot that holds no initialized element.
None == 0
Uninit == 0

Values == {1, 2}

USIZE_MAX == 2 ^ WordBits - 1
ISIZE_MAX == 2 ^ (WordBits - 1) - 1

\* RawVec::MIN_NON_ZERO_CAP for the element size.
MinNonZeroCap == IF ElemSize = 1 THEN 8 ELSE IF ElemSize <= 1024 THEN 4 ELSE 1

Max(a, b) == IF a >= b THEN a ELSE b
Min(a, b) == IF a <= b THEN a ELSE b

VARIABLES
    vec,      \* the Vec: [alive, buf (one entry per capacity slot), len]
    deq,      \* the VecDeque: [alive, buf, head, len]
    inUse,    \* WatermarkAllocator.in_use, shared by every clone
    last,     \* what the most recent call was and what it returned
    credit,   \* pushes still covered by the most recent successful reserve
    cloned,   \* the containers try_clone returned: [vec, deq]
    block,    \* which memory block each buffer lives in (0: none)
    drain,    \* the Drain a drain() call on the VecDeque returned
    thr       \* the threads calling the allocator directly: [pc, size, cur, held]

vars == <<vec, deq, inUse, last, credit, cloned, block, drain, thr>>

\* ------------------------------------------------------------- allocator
\* WatermarkAllocator::allocate, single caller: the request is refused when
\* it would take the counter past the watermark (new_in_use > watermark);
\* fetch_add returns the counter's previous value (true_new_in_use), which
\* is what the second test looks at.
Allocate(use, size) ==
    IF use + size > Watermark
    THEN [ok |-> FALSE, use |-> use]
    ELSE IF use > Watermark
    THEN [ok |-> FALSE, use |-> use + size]
    ELSE [ok |-> TRUE, use |-> use + size]

\* WatermarkAllocator::deallocate: fetch_sub(layout.size()).
Deallocate(use, size) == use - size

\* The same two calls as the threads of a program run them: the atomic
\* accesses to the shared counter are the steps, everything between two of
\* them is local to the calling thread.
Threads == 1..NumThreads

\* The Layout sizes the threads ask for: two and four elements.
AllocSizes == {2 * ElemSize, 4 * ElemSize}

\* A thread outside any call, holding the blocks of sizes held.
IdleThread(held) == [pc |-> "idle", size |-> 0, cur |-> 0, held |-> held]

\* allocate up to its first return: current_in_use = load(SeqCst), and
\* `if new_in_use > self.watermark { return Err(AllocError) }`; past that
\* the thread goes on to Global.allocate and the fetch_add.
AllocateEnter(th, use, size) ==
    IF use + size > Watermark
    THEN [th |-> th, res |-> "AllocError"]
    ELSE [th |-> [th EXCEPT !.pc = "allocating", !.size = size, !.cur = use],
          res |-> "pending"]

\* allocate from the fetch_add on: the counter takes the size whatever
\* happens next; true_new_in_use is the value fetch_add returns, the one
\* before the addition; above the watermark the block goes back to Global
\* and the call answers Err, else the block is handed out.
AllocateFetchAddOp(th, use) ==
    [use |-> (use + th.size) % (USIZE_MAX + 1),
     th |-> IF use > Watermark
            THEN IdleThread(th.held)
            ELSE IdleThread(Append(th.held, th.size)),
     res |-> IF use > Watermark THEN "AllocError" ELSE "ok"]

\* The sequence s without its i-th entry.
Without(s, i) == SubSeq(s, 1, i - 1) \o SubSeq(s, i + 1, Len(s))

\* deallocate of the i-th block the thread holds: fetch_sub(layout.size()).
DeallocateOp(th, use, i) ==
    [use |-> (use - th.held[i]) % (USIZE_MAX + 1),
     th |-> IdleThread(Without(th.held, i))]

\* ------------------------------------------------------------ raw buffer
UninitSlots(n) == [k \in 1..n |-> Uninit]

\* What a growth attempt yields: the capacity, the counter, the calls made.
GR(res, cap, use, na, nd) ==
    [res |-> res, cap |-> cap, use |-> use, nalloc |-> na, ndealloc |-> nd]

\* Mutant: the required total is taken one slot short.
NewCapacity_OneShort(cap, required) == Max(Max(cap * 2, required - 1), MinNonZeroCap)

\* Mutant: growth to exactly the required total, no doubling.
NewCapacity_Exact(cap, required) == required

\* RawVec::grow_amortized: cap = max(cap * 2, required), at least
\* MIN_NON_ZERO_CAP.
NewCapacity(cap, required) == Max(Max(cap * 2, required), MinNonZeroCap)

\* Mutant: growth that never gives the old block back.
FinishGrow_KeepsOld(cap, newcap, a) ==
    IF ~a.ok
    THEN GR("AllocError", cap, a.use, 1, 0)
    ELSE GR("ok", newcap, a.use, 1, 0)

\* RawVec finish_grow, given the allocator's answer a for the new block.
\* Allocator::grow is the trait's default: allocate the new block, copy,
\* and only then deallocate the old one; a first block is a plain allocate.
FinishGrow(cap, newcap, a) ==
    IF ~a.ok
    THEN GR("AllocError", cap, a.use, 1, 0)
    ELSE IF cap > 0
    THEN GR("ok", newcap, Deallocate(a.use, cap * ElemSize), 1, 1)
    ELSE GR("ok", newcap, a.use, 1, 0)

\* Mutant: the old block is given back first and the new one asked for
\* afterwards.
GrowTo_FreeFirst(cap, newcap, use) ==
    IF newcap > ISIZE_MAX \div ElemSize
    THEN GR("CapacityOverflow", cap, use, 0, 0)
    ELSE IF Allocate(Deallocate(use, cap * ElemSize), newcap * ElemSize).ok
    THEN GR("ok", newcap, Deallocate(use, cap * ElemSize) + newcap * ElemSize, 1,
            IF cap > 0 THEN 1 ELSE 0)
    ELSE GR("AllocError", cap, Deallocate(use, cap * ElemSize), 1, IF cap > 0 THEN 1 ELSE 0)

\* Layout::array::<T>(newcap) must fit isize::MAX bytes, else CapacityOverflow.
GrowTo(cap, newcap, use) ==
    IF newcap > ISIZE_MAX \div ElemSize
    THEN GR("CapacityOverflow", cap, use, 0, 0)
    ELSE FinishGrow(cap, newcap, Allocate(use, newcap * ElemSize))

\* Mutant: the required total is a wrapping sum.
GrowAmortized_Wrapping(cap, len, additional, use) ==
    GrowTo(cap, NewCapacity(cap, (len + additional) % (USIZE_MAX + 1)), use)

\* RawVec::grow_amortized: required = len.checked_add(additional).
GrowAmortized(cap, len, additional, use) ==
    IF len + additional > USIZE_MAX
    THEN GR("CapacityOverflow", cap, use, 0, 0)
    ELSE GrowTo(cap, NewCapacity(cap, len + additional), use)

\* Mutant: the free room is taken to be the whole capacity (len forgotten).
RawTryReserve_IgnoreLen(cap, len, additional, use) ==
    IF additional > cap
    THEN GrowAmortized(cap, len, additional, use)
    ELSE GR("ok", cap, use, 0, 0)

\* RawVec::try_reserve: grows only when additional > capacity - len.
RawTryReserve(cap, len, additional, use) ==
    IF additional > cap - len
    THEN GrowAmortized(cap, len, additional, use)
    ELSE GR("ok", cap, use, 0, 0)

\* ------------------------------------------------------------------- Vec
NoVec == [alive |-> FALSE, buf |-> <<>>, len |-> 0]

Cap(c) == Len(c.buf)

\* The Vec as a slice: its first len slots.
VecSlice(v) == SubSeq(v.buf, 1, v.len)

\* Result of a fallible Vec call.
VR(v, use, res, na, nd) ==
    [v |-> v, use |-> use, res |-> res, nalloc |-> na, ndealloc |-> nd, nones |-> 0,
     calls |-> 0, innerGrow |-> FALSE]

\* Mutant: new_in that sets up a first block of MIN_NON_ZERO_CAP slots.
VecNewInOp_Prealloc == [alive |-> TRUE, buf |-> UninitSlots(MinNonZeroCap), len |-> 0]

\* Vec::new_in
VecNewInOp == [alive |-> TRUE, buf |-> <<>>, len |-> 0]

\* Mutant: growth that gives the old block back before asking for the new
\* one, so a refusal leaves the Vec without its buffer.
VecAfterReserve_FreeFirst(v, g) ==
    IF g.res = "ok"
    THEN VR([v EXCEPT !.buf = v.buf \o UninitSlots(g.cap - Cap(v))],
            g.use, "ok", g.nalloc, g.ndealloc)
    ELSE VR([v EXCEPT !.buf = <<>>, !.len = 0],
            Deallocate(g.use, Cap(v) * ElemSize), g.res, g.nalloc, g.ndealloc + 1)

\* The Vec after try_reserve answered g: on Ok the buffer has g.cap slots
\* (the old ones copied), on Err nothing of the Vec changed.
VecAfterReserve(v, g) ==
    IF g.res = "ok"
    THEN VR([v EXCEPT !.buf = v.buf \o UninitSlots(g.cap - Cap(v))],
            g.use, "ok", g.nalloc, g.ndealloc)
    ELSE VR(v, g.use, g.res, g.nalloc, g.ndealloc)

\* Vec::reserve -> inner try_reserve
VecReserveOp(v, use, additional) ==
    VecAfterReserve(v, RawTryReserve(Cap(v), v.len, additional, use))

\* Mutant: a refused request is silently asked a second time.
VecFromAllocation_Retry(n, a) ==
    IF a.ok
    THEN VR([alive |-> TRUE, buf |-> UninitSlots(n), len |-> 0], a.use, "ok", 1, 0)
    ELSE VR(NoVec, Allocate(a.use, n * ElemSize).use, "AllocError", 2, 0)

\* try_with_capacity_in, given the allocator's answer a for n elements.
VecFromAllocation(n, a) ==
    IF a.ok
    THEN VR([alive |-> TRUE, buf |-> UninitSlots(n), len |-> 0], a.use, "ok", 1, 0)
    ELSE VR(NoVec, a.use, "AllocError", 1, 0)

\* Mutant: the requested capacity is rounded up to MIN_NON_ZERO_CAP.
VecWithCapacityInOp_MinCap(n, use) ==
    IF n = 0
    THEN VR(VecNewInOp, use, "ok", 0, 0)
    ELSE IF n > ISIZE_MAX \div ElemSize
    THEN VR(NoVec, use, "CapacityOverflow", 0, 0)
    ELSE VecFromAllocation(Max(n, MinNonZeroCap),
                           Allocate(use, Max(n, MinNonZeroCap) * ElemSize))

\* Vec::with_capacity_in -> inner try_with_capacity_in: a zero capacity
\* takes no memory, anything else is one allocation of exactly n elements.
VecWithCapacityInOp(n, use) ==
    IF n = 0
    THEN VR(VecNewInOp, use, "ok", 0, 0)
    ELSE IF n > ISIZE_MAX \div ElemSize
    THEN VR(NoVec, use, "CapacityOverflow", 0, 0)
    ELSE VecFromAllocation(n, Allocate(use, n * ElemSize))

\* Vec::unsafe_push: write at slot len, then set_len(len + 1).
UnsafePush(v, value) ==
    [v EXCEPT !.buf = [v.buf EXCEPT ![v.len + 1] = value], !.len = v.len + 1]

\* Mutant: push without the `?` -- the value is written whatever reserve said.
PushAfterReserve_Unchecked(r, value) == [r EXCEPT !.v = UnsafePush(r.v, value)]

\* Vec::push after `self.reserve(1)` answered r: `?` returns the error,
\* else the value goes into the reserved slot.
PushAfterReserve(r, value) ==
    IF r.res # "ok"
    THEN r
    ELSE [r EXCEPT !.v = UnsafePush(r.v, value)]

\* Vec::push
VecPushOp(v, use, value) == PushAfterReserve(VecReserveOp(v, use, 1), value)

\* An iterator as extend sees it: the items it yields, how many it has
\* yielded, and how often next() has answered None.
IterOf(items) == [items |-> items, pos |-> 0, nones |-> 0]

\* Iterator::next
IterNext(it) ==
    IF it.pos < Len(it.items)
    THEN [some |-> TRUE, val |-> it.items[it.pos + 1], it |-> [it EXCEPT !.pos = it.pos + 1]]
    ELSE [some |-> FALSE, val |-> None, it |-> [it EXCEPT !.nones = it.nones + 1]]

\* Mutant: a None in the first loop breaks out of it instead of returning.
RECURSIVE ExtendHot(_, _, _)
ExtendHotStep_Break(v, nx, k) ==
    IF ~nx.some
    THEN [v |-> v, it |-> nx.it, returned |-> FALSE]
    ELSE ExtendHot(UnsafePush(v, nx.val), nx.it, k - 1)

\* Vec::extend, first loop: `for _ in 0..lower_bound`, k rounds to go, nx
\* the iterator's answer in this round. A None returns Ok(()) from extend
\* at once.
ExtendHotStep(v, nx, k) ==
    IF ~nx.some
    THEN [v |-> v, it |-> nx.it, returned |-> TRUE]
    ELSE ExtendHot(UnsafePush(v, nx.val), nx.it, k - 1)

ExtendHot(v, it, k) ==
    IF k = 0
    THEN [v |-> v, it |-> it, returned |-> FALSE]
    ELSE ExtendHotStep(v, IterNext(it), k)

\* Adds the allocator calls made before p to those of p.
Accumulate(r, p, it) ==
    [p EXCEPT !.nalloc = r.nalloc + p.nalloc,
              !.ndealloc = r.ndealloc + p.ndealloc,
              !.nones = it.nones]

\* Vec::extend, second loop: `for value in iter { self.push(value)?; }`.
\* r accumulates the Vec, the counter and the allocator calls so far.
RECURSIVE ExtendRest(_, _)
ExtendRestPushed(p, it) ==
    IF p.res # "ok" THEN p ELSE ExtendRest(p, it)

ExtendRestStep(r, nx) ==
    IF ~nx.some
    THEN [r EXCEPT !.nones = nx.it.nones]
    ELSE ExtendRestPushed(Accumulate(r, VecPushOp(r.v, r.use, nx.val), nx.it), nx.it)

ExtendRest(r, it) == ExtendRestStep(r, IterNext(it))

\* Vec::extend after the first loop.
ExtendAfterHot(r, hot) ==
    IF hot.returned
    THEN [r EXCEPT !.v = hot.v, !.nones = hot.it.nones]
    ELSE ExtendRest([r EXCEPT !.v = hot.v], hot.it)

\* Mutant: an iterator shorter than its hint is reported as an error.
ExtendAfterReserve_Strict(r, items, lower_bound) ==
    IF r.res # "ok"
    THEN r
    ELSE IF Len(items) < lower_bound
    THEN [r EXCEPT !.res = "CapacityOverflow"]
    ELSE ExtendAfterHot(r, ExtendHot(r.v, IterOf(items), lower_bound))

\* Vec::extend after `self.reserve(lower_bound)` answered r.
ExtendAfterReserve(r, items, lower_bound) ==
    IF r.res # "ok"
    THEN r
    ELSE ExtendAfterHot(r, ExtendHot(r.v, IterOf(items), lower_bound))

\* Vec::extend
VecExtendOp(v, use, items, lower_bound) ==
    ExtendAfterReserve(VecReserveOp(v, use, lower_bound), items, lower_bound)

\* Mutant: truncate that also gives the tail's capacity up (shrink_to_fit).
VecTruncateOp_Shrink(v, new_len) ==
    IF new_len >= v.len
    THEN v
    ELSE [v EXCEPT !.len = new_len, !.buf = SubSeq(v.buf, 1, new_len)]

\* Vec::truncate -> inner truncate: drops the tail, keeps the capacity.
VecTruncateOp(v, new_len) ==
    IF new_len >= v.len
    THEN v
    ELSE [v EXCEPT !.len = new_len,
                   !.buf = [k \in 1..Cap(v) |-> IF k <= new_len THEN v.buf[k] ELSE Uninit]]

\* Vec::clear -> inner clear, which is truncate(0).
VecClearOp(v) == VecTruncateOp(v, 0)

\* IndexMut: `vec[index] = value` on an index below len.
VecIndexMutOp(v, index, value) == [v EXCEPT !.buf = [v.buf EXCEPT ![index + 1] = value]]

\* inner extend_from_slice on reserved room: the slice is copied to slots
\* len .. len + |slice| and the length is set.
AppendElements(v, slice) ==
    [v EXCEPT !.buf = [k \in 1..Cap(v) |->
                          IF k > v.len /\ k <= v.len + Len(slice)
                          THEN slice[k - v.len] ELSE v.buf[k]],
              !.len = v.len + Len(slice)]

\* Mutant: the copy is made whatever reserve answered, into the slots at hand.
ExtendFromSliceAfterReserve_Unchecked(r, slice) ==
    [r EXCEPT !.v = AppendElements(r.v, SubSeq(slice, 1, Min(Len(slice), Cap(r.v) - r.v.len)))]

\* A growth made by the inner Vec itself, g its answer on top of the calls
\* r already made: a refusal aborts the process (handle_error).
VecInnerGrown(r, g) ==
    [g EXCEPT !.res = IF g.res = "ok" THEN "ok" ELSE "abort",
              !.nalloc = r.nalloc + g.nalloc,
              !.ndealloc = r.ndealloc + g.ndealloc,
              !.innerGrow = TRUE]

\* inner extend_from_slice -> append_elements starts with its own
\* (infallible) `self.reserve(count)`.
VecInnerReserve(r, count) ==
    IF count <= Cap(r.v) - r.v.len
    THEN r
    ELSE VecInnerGrown(r, VecReserveOp(r.v, r.use, count))

\* ... and copies the slice into the room g then has.
ExtendFromSliceInner(g, slice) ==
    IF g.res # "ok" THEN g ELSE [g EXCEPT !.v = AppendElements(g.v, slice)]

\* Vec::extend_from_slice after `self.reserve(slice.len())` answered r.
ExtendFromSliceAfterReserve(r, slice) ==
    IF r.res # "ok"
    THEN r
    ELSE ExtendFromSliceInner(VecInnerReserve(r, Len(slice)), slice)

\* Mutant: the reservation asks for one slot more than the slice needs.
VecExtendFromSliceOp_OneMore(v, use, slice) ==
    ExtendFromSliceAfterReserve(VecReserveOp(v, use, Len(slice) + 1), slice)

\* Mutant: the reservation asks for one slot less than the slice needs.
VecExtendFromSliceOp_OneShort(v, use, slice) ==
    ExtendFromSliceAfterReserve(VecReserveOp(v, use, Max(Len(slice) - 1, 0)), slice)

\* Vec::extend_from_slice
VecExtendFromSliceOp(v, use, slice) ==
    ExtendFromSliceAfterReserve(VecReserveOp(v, use, Len(slice)), slice)

\* Vec::extend_with, the loop `for index in len..new_len`: one write of
\* value.clone() per index, index going up; then set_len(new_len).
RECURSIVE ExtendWithLoop(_, _, _, _)
ExtendWithLoop(v, index, new_len, value) ==
    IF index >= new_len
    THEN [v EXCEPT !.len = new_len]
    ELSE ExtendWithLoop([v EXCEPT !.buf = [v.buf EXCEPT ![index + 1] = value]],
                        index + 1, new_len, value)

\* Mutant: the loop stops one index short (`len..new_len - 1`).
ExtendWithAfterReserve_ShortLoop(r, additional, value) ==
    IF r.res # "ok"
    THEN r
    ELSE [r EXCEPT !.v = [ExtendWithLoop(r.v, r.v.len, r.v.len + additional - 1, value)
                             EXCEPT !.len = r.v.len + additional]]

\* Vec::extend_with after `self.reserve(additional)` answered r.
ExtendWithAfterReserve(r, additional, value) ==
    IF r.res # "ok"
    THEN r
    ELSE [r EXCEPT !.v = ExtendWithLoop(r.v, r.v.len, r.v.len + additional, value)]

\* Vec::extend_with
VecExtendWithOp(v, use, additional, value) ==
    ExtendWithAfterReserve(VecReserveOp(v, use, additional), additional, value)

\* Vec::resize
VecResizeOp(v, use, new_len, value) ==
    IF new_len > v.len
    THEN VecExtendWithOp(v, use, new_len - v.len, value)
    ELSE VR(VecTruncateOp(v, new_len), use, "ok", 0, 0)

\* A producer closure `f: FnMut() -> T`: it answers its script's values in
\* turn (cyclically) and counts how often it has been invoked.
ProducerOf(script) == [script |-> script, calls |-> 0]

ProducerCall(f) ==
    [val |-> f.script[(f.calls % Len(f.script)) + 1],
     f |-> [f EXCEPT !.calls = f.calls + 1]]

\* Vec::resize_with, the loop `for index in len..new_len`: f() is written to
\* slot index; then set_len(new_len).
RECURSIVE ResizeWithLoop(_, _, _, _)
ResizeWithWrite(v, index, new_len, c) ==
    ResizeWithLoop([v EXCEPT !.buf = [v.buf EXCEPT ![index + 1] = c.val]],
                   index + 1, new_len, c.f)

ResizeWithLoop(v, index, new_len, f) ==
    IF index >= new_len
    THEN [v |-> [v EXCEPT !.len = new_len], calls |-> f.calls]
    ELSE ResizeWithWrite(v, index, new_len, ProducerCall(f))

ResizeWithFilled(r, w) == [r EXCEPT !.v = w.v, !.calls = w.calls]

\* Mutant: the producer is invoked once before the reservation is attempted.
ResizeWithAfterReserve_EagerCall(r, new_len, f) ==
    IF r.res # "ok"
    THEN [r EXCEPT !.calls = 1]
    ELSE ResizeWithFilled(r, ResizeWithLoop(r.v, r.v.len, new_len, f))

\* Vec::resize_with (new_len > len) after `self.reserve(new_len - len)`
\* answered r.
ResizeWithAfterReserve(r, new_len, f) ==
    IF r.res # "ok"
    THEN r
    ELSE ResizeWithFilled(r, ResizeWithLoop(r.v, r.v.len, new_len, f))

\* Vec::resize_with
VecResizeWithOp(v, use, new_len, f) ==
    IF new_len > v.len
    THEN ResizeWithAfterReserve(VecReserveOp(v, use, new_len - v.len), new_len, f)
    ELSE VR(VecTruncateOp(v, new_len), use, "ok", 0, 0)

\* Mutant: the drop gives back the bytes of the elements held, not of the
\* slots allocated.
DropUse_OfLength(c, use) == IF Cap(c) > 0 THEN Deallocate(use, c.len * ElemSize) ELSE use

\* Drop of a Vec: RawVec releases capacity * size_of::<T>() bytes, if any.
DropUse(c, use) == IF Cap(c) > 0 THEN Deallocate(use, Cap(c) * ElemSize) ELSE use

\* How many deallocate calls the drop of c makes.
DropCalls(c) == IF Cap(c) > 0 THEN 1 ELSE 0

\* try_clone after `cloned.extend_from_slice(..)` answered e on top of the
\* allocation w: `?` drops the half-built clone, else Ok(cloned).
TryCloneFilled(w, e) ==
    IF e.res = "ok"
    THEN [e EXCEPT !.nalloc = w.nalloc + e.nalloc, !.ndealloc = w.ndealloc + e.ndealloc]
    ELSE VR(NoVec, DropUse(e.v, e.use), e.res,
            w.nalloc + e.nalloc, w.ndealloc + e.ndealloc + DropCalls(e.v))

\* try_clone after `Self::with_capacity_in(self.len(), ..)` answered w.
TryCloneAfterAllocation(w, slice) ==
    IF w.res # "ok"
    THEN w
    ELSE TryCloneFilled(w, VecExtendFromSliceOp(w.v, w.use, slice))

\* Mutant: the clone is given the source's capacity rather than its length.
VecTryCloneOp_SourceCapacity(v, use) ==
    TryCloneAfterAllocation(VecWithCapacityInOp(Cap(v), use), VecSlice(v))

\* Mutant: the clone is a copy of the source's handle (pointer, capacity,
\* length), no allocation made.
VecTryCloneOp_Shallow(v, use) == VR(v, use, "ok", 0, 0)

\* impl TryClone for Vec: try_clone
VecTryCloneOp(v, use) ==
    TryCloneAfterAllocation(VecWithCapacityInOp(v.len, use), VecSlice(v))

\* Mutant: the old value is dropped before the duplicate is attempted.
VecTryCloneFromAssign_DropFirst(target, r) ==
    IF r.res # "ok"
    THEN [r EXCEPT !.v = [target EXCEPT !.buf = <<>>, !.len = 0],
                   !.use = DropUse(target, r.use),
                   !.ndealloc = r.ndealloc + DropCalls(target)]
    ELSE [r EXCEPT !.use = DropUse(target, r.use),
                   !.ndealloc = r.ndealloc + DropCalls(target)]

\* TryClone::try_clone_from, `*self = source.try_clone()?` with r the answer
\* of try_clone: `?` leaves self alone; else the duplicate is moved into
\* self and the old value dropped.
VecTryCloneFromAssign(target, r) ==
    IF r.res # "ok"
    THEN [r EXCEPT !.v = target]
    ELSE [r EXCEPT !.use = DropUse(target, r.use),
                   !.ndealloc = r.ndealloc + DropCalls(target)]

\* Mutant: a target with room enough takes the elements into its own buffer.
VecTryCloneFromOp_Reuse(target, source, use) ==
    IF Cap(target) >= source.len
    THEN VR(AppendElements(VecTruncateOp(target, 0), VecSlice(source)), use, "ok", 0, 0)
    ELSE VecTryCloneFromAssign(target, VecTryCloneOp(source, use))

\* TryClone::try_clone_from on Vec
VecTryCloneFromOp(target, source, use) ==
    VecTryCloneFromAssign(target, VecTryCloneOp(source, use))

\* -------------------------------------------------------------- VecDeque
\* head is the physical offset (from 0) of the first logical element; the
\* slot at physical offset p is buf[p + 1].
NoDeque == [alive |-> FALSE, buf |-> <<>>, head |-> 0, len |-> 0]

\* <[T] as PartialEq<[U]>>::eq, which `self[..] == other[..]` calls: the
\* lengths first, then the elements in order.
SliceEq(a, b) ==
    IF Len(a) # Len(b) THEN FALSE ELSE \A k \in 1..Len(a) : a[k] = b[k]

\* <[T] as PartialEq<[U]>>::ne
SliceNe(a, b) == ~SliceEq(a, b)

\* The element-by-element comparison of the whole buffers, capacity included.
VecEq_WholeBuffer(v, w) == SliceEq(v.buf, w.buf)

\* impl PartialEq<Vec<U, A2>> for Vec<T, A1>: eq is self[..] == other[..]
VecEq(v, w) == SliceEq(VecSlice(v), VecSlice(w))

\* ... and ne is self[..] != other[..]
VecNe(v, w) == SliceNe(VecSlice(v), VecSlice(w))

\* Result of a VecDeque call.
DR(d, use, res, na, nd) ==
    [d |-> d, use |-> use, res |-> res, nalloc |-> na, ndealloc |-> nd,
     ret |-> None, innerGrow |-> FALSE]

\* wrap_index: logical index -> physical index, for logical < 2 * capacity.
WrapIndex(logical, capacity) ==
    IF logical >= capacity THEN logical - capacity ELSE logical

WrapAdd(d, idx, addend) == WrapIndex(idx + addend, Cap(d))

WrapSub(d, idx, subtrahend) == WrapIndex(idx - subtrahend + Cap(d), Cap(d))

ToPhysicalIdx(d, idx) == WrapAdd(d, d.head, idx)

BufferRead(d, off) == d.buf[off + 1]

BufferWrite(d, off, value) == [d EXCEPT !.buf = [d.buf EXCEPT ![off + 1] = value]]

\* Mutant: the slot at the index itself, the head left out.
DequeGet_FromZero(d, index) ==
    IF index < d.len THEN BufferRead(d, index) ELSE None

\* VecDeque::get: None past the end, else the slot at (head + index) wrapped.
DequeGet(d, index) ==
    IF index < d.len THEN BufferRead(d, ToPhysicalIdx(d, index)) ELSE None

\* The logical sequence, as get(0), get(1), ... / iter() read it.
DequeSeq(d) == [k \in 1..d.len |-> DequeGet(d, k - 1)]

\* copy / copy_nonoverlapping: n slots from offset src to offset dst.
Copy(d, src, dst, n) ==
    [d EXCEPT !.buf = [p \in 1..Cap(d) |->
        IF dst <= p - 1 /\ p - 1 < dst + n THEN d.buf[src + (p - 1 - dst) + 1] ELSE d.buf[p]]]

\* wrap_copy: n slots from src to dst, both wrapping at the capacity.
WrapCopy(d, src, dst, n) ==
    [d EXCEPT !.buf = [p \in 1..Cap(d) |->
        LET k == WrapIndex(p - 1 - dst + Cap(d), Cap(d)) IN
        IF k < n THEN d.buf[WrapIndex(src + k, Cap(d)) + 1] ELSE d.buf[p]]]

\* A slot outside the window [head, head + len) holds a moved-out value or
\* was never written: it is uninitialized memory.
Scrub(d) ==
    [d EXCEPT !.buf = [p \in 1..Cap(d) |->
        IF WrapIndex(p - 1 - d.head + Cap(d), Cap(d)) < d.len THEN d.buf[p] ELSE Uninit]]

\* VecDeque::handle_capacity_increase: after the buffer grew from
\* old_capacity, make the wrapped window contiguous-modulo the new capacity
\* by moving its shorter section.
HandleCapacityIncrease(d, old_capacity) ==
    LET new_capacity == Cap(d)
        head_len == old_capacity - d.head
        tail_len == d.len - head_len
        new_head == new_capacity - head_len
    IN
    IF d.head <= old_capacity - d.len
    THEN d
    ELSE IF head_len > tail_len /\ new_capacity - old_capacity >= tail_len
    THEN Scrub(Copy(d, 0, old_capacity, tail_len))
    ELSE Scrub([Copy(d, d.head, new_head, head_len) EXCEPT !.head = new_head])

\* VecDeque::new_in
DequeNewInOp == [alive |-> TRUE, buf |-> <<>>, head |-> 0, len |-> 0]

\* From<Vec> for VecDeque: the Vec's buffer, head at offset 0.
DequeFromVec(v) == [alive |-> v.alive, buf |-> v.buf, head |-> 0, len |-> v.len]

\* `Vec::with_capacity_in(capacity, alloc)?.into()`, r the Vec call's answer.
DequeFromVecResult(r) ==
    IF r.res = "ok"
    THEN DR(DequeFromVec(r.v), r.use, "ok", r.nalloc, r.ndealloc)
    ELSE DR(NoDeque, r.use, r.res, r.nalloc, r.ndealloc)

\* VecDeque::with_capacity_in
DequeWithCapacityInOp(n, use) == DequeFromVecResult(VecWithCapacityInOp(n, use))

\* inner try_reserve after the buffer's try_reserve answered g: on Ok the
\* buffer has g.cap slots and the window is re-seated, on Err nothing moved.
DequeAfterReserve(d, g) ==
    IF g.res # "ok"
    THEN DR(d, g.use, g.res, g.nalloc, g.ndealloc)
    ELSE DR(HandleCapacityIncrease(
                [d EXCEPT !.buf = d.buf \o UninitSlots(g.cap - Cap(d))], Cap(d)),
            g.use, "ok", g.nalloc, g.ndealloc)

\* VecDeque::reserve -> inner try_reserve: new_cap = len.checked_add(additional),
\* and the buffer grows only when new_cap > old_cap.
DequeReserveOp(d, use, additional) ==
    IF d.len + additional > USIZE_MAX
    THEN DR(d, use, "CapacityOverflow", 0, 0)
    ELSE IF d.len + additional > Cap(d)
    THEN DequeAfterReserve(d, RawTryReserve(Cap(d), d.len, additional, use))
    ELSE DR(d, use, "ok", 0, 0)

\* grow() of the inner deque, g its reservation's answer on top of the calls
\* r already made: a refusal aborts the process (handle_alloc_error).
InnerGrown(r, g) ==
    [g EXCEPT !.res = IF g.res = "ok" THEN "ok" ELSE "abort",
              !.nalloc = r.nalloc + g.nalloc,
              !.ndealloc = r.ndealloc + g.ndealloc,
              !.innerGrow = TRUE]

\* The inner (infallible) calls start with `if self.is_full() { self.grow() }`.
InnerGrowIfFull(r) ==
    IF r.d.len # Cap(r.d)
    THEN r
    ELSE InnerGrown(r, DequeReserveOp(r.d, r.use, 1))

\* inner push_back: write at the slot after the last element.
InnerPushBack(d, value) ==
    [BufferWrite(d, ToPhysicalIdx(d, d.len), value) EXCEPT !.len = d.len + 1]

\* inner push_front: step the head back, then write at it.
InnerPushFront(d, value) ==
    [BufferWrite(d, WrapSub(d, d.head, 1), value)
        EXCEPT !.head = WrapSub(d, d.head, 1), !.len = d.len + 1]

\* inner insert, after the shift m: buffer_write at to_physical_idx(index),
\* then len += 1.
InsertWrite(m, index, value) ==
    [BufferWrite(m, ToPhysicalIdx(m, index), value) EXCEPT !.len = m.len + 1]

\* Mutant: the tail is shifted onto itself (destination index, not index + 1).
InnerInsert_NoShift(d, index, value) ==
    IF d.len - index < index
    THEN InsertWrite(WrapCopy(d, ToPhysicalIdx(d, index), ToPhysicalIdx(d, index),
                              d.len - index),
                     index, value)
    ELSE InsertWrite([WrapCopy(d, d.head, WrapSub(d, d.head, 1), index)
                         EXCEPT !.head = WrapSub(d, d.head, 1)],
                     index, value)

\* inner insert (index <= len): shift the shorter side by one, then write.
InnerInsert(d, index, value) ==
    IF d.len - index < index
    THEN InsertWrite(WrapCopy(d, ToPhysicalIdx(d, index), ToPhysicalIdx(d, index + 1),
                              d.len - index),
                     index, value)
    ELSE InsertWrite([WrapCopy(d, d.head, WrapSub(d, d.head, 1), index)
                         EXCEPT !.head = WrapSub(d, d.head, 1)],
                     index, value)

\* push_back after `self.reserve(1)?`: g is the inner call's own is_full step.
PushBackInner(g, item) ==
    IF g.res # "ok" THEN g ELSE [g EXCEPT !.d = InnerPushBack(g.d, item)]

PushFrontInner(g, item) ==
    IF g.res # "ok" THEN g ELSE [g EXCEPT !.d = InnerPushFront(g.d, item)]

InsertInner(g, index, item) ==
    IF g.res # "ok" THEN g ELSE [g EXCEPT !.d = InnerInsert(g.d, index, item)]

\* `self.reserve(1)?;` answered r: an error returns before the inner call.
PushBackAfterReserve(r, item) ==
    IF r.res # "ok" THEN r ELSE PushBackInner(InnerGrowIfFull(r), item)

PushFrontAfterReserve(r, item) ==
    IF r.res # "ok" THEN r ELSE PushFrontInner(InnerGrowIfFull(r), item)

\* Mutant: the inner insert runs whatever `self.reserve(1)` answered.
InsertAfterReserve_Unchecked(r, index, item) ==
    [r EXCEPT !.d = InnerInsert(r.d, index, item)]

InsertAfterReserve(r, index, item) ==
    IF r.res # "ok" THEN r ELSE InsertInner(InnerGrowIfFull(r), index, item)

\* VecDeque::push_back
DequePushBackOp(d, use, item) == PushBackAfterReserve(DequeReserveOp(d, use, 1), item)

\* VecDeque::push_front
DequePushFrontOp(d, use, item) == PushFrontAfterReserve(DequeReserveOp(d, use, 1), item)

\* VecDeque::insert
DequeInsertOp(d, use, index, item) ==
    InsertAfterReserve(DequeReserveOp(d, use, 1), index, item)

\* Mutant: the front element is returned but the head does not advance.
DequePopFrontOp_KeepHead(d) ==
    IF d.len = 0
    THEN [d |-> d, ret |-> None]
    ELSE [d |-> Scrub([d EXCEPT !.len = d.len - 1]),
          ret |-> BufferRead(d, d.head)]

\* VecDeque::get_mut, and the write `*value = item` through what it returns.
DequeGetMutOp(d, index, item) ==
    IF index < d.len
    THEN [d |-> BufferWrite(d, ToPhysicalIdx(d, index), item), ret |-> DequeGet(d, index)]
    ELSE [d |-> d, ret |-> None]

\* VecDeque::is_contiguous
IsContiguous(d) == d.head <= Cap(d) - d.len

\* slice::rotate_left(mid) on the buffer range [from, to): the element at
\* offset mid of the range comes first.
RotateLeft(d, from, to, mid) ==
    [d EXCEPT !.buf = [p \in 1..Cap(d) |->
        IF from <= p - 1 /\ p - 1 < to
        THEN d.buf[from + ((p - 1 - from + mid) % (to - from)) + 1]
        ELSE d.buf[p]]]

\* slice::rotate_right(k) on the buffer range [from, to)
RotateRight(d, from, to, k) == RotateLeft(d, from, to, (to - from) - k)

\* `if free != 0 { self.copy(src, dst, n) }`
CopyIfFree(d, free, src, dst, n) == IF free # 0 THEN Copy(d, src, dst, n) ELSE d

\* Mutant: the head section is copied to the front before the tail section
\* has been moved out of its way.
MakeContiguousOp_HeadFirst(d) ==
    LET free == Cap(d) - d.len
        head_len == Cap(d) - d.head
        tail_len == d.len - head_len
    IN
    IF IsContiguous(d)
    THEN d
    ELSE IF free >= head_len
    THEN Scrub([Copy(Copy(d, d.head, 0, head_len), 0, head_len, tail_len)
                   EXCEPT !.head = 0])
    ELSE IF free >= tail_len
    THEN Scrub([Copy(Copy(d, d.head, tail_len, head_len), 0, tail_len + head_len, tail_len)
                   EXCEPT !.head = tail_len])
    ELSE IF head_len > tail_len
    THEN Scrub([RotateLeft(CopyIfFree(d, free, 0, free, tail_len), free, Cap(d), tail_len)
                   EXCEPT !.head = free])
    ELSE Scrub([RotateRight(CopyIfFree(d, free, d.head, tail_len, head_len), 0, d.len, head_len)
                   EXCEPT !.head = 0])

\* VecDeque::make_contiguous -> the inner deque's: nothing to do when the
\* window does not wrap; else the tail section (at the buffer's start,
\* tail_len long) and the head section (at its end, head_len long) are
\* brought together, by two copies when the free slots can take one of
\* them, by a copy and a rotation otherwise.
MakeContiguousOp(d) ==
    LET free == Cap(d) - d.len
        head_len == Cap(d) - d.head
        tail_len == d.len - head_len
    IN
    IF IsContiguous(d)
    THEN d
    ELSE IF free >= head_len
    THEN Scrub([Copy(Copy(d, 0, head_len, tail_len), d.head, 0, head_len)
                   EXCEPT !.head = 0])
    ELSE IF free >= tail_len
    THEN Scrub([Copy(Copy(d, d.head, tail_len, head_len), 0, tail_len + head_len, tail_len)
                   EXCEPT !.head = tail_len])
    ELSE IF head_len > tail_len
    THEN Scrub([RotateLeft(CopyIfFree(d, free, 0, free, tail_len), free, Cap(d), tail_len)
                   EXCEPT !.head = free])
    ELSE Scrub([RotateRight(CopyIfFree(d, free, d.head, tail_len, head_len), 0, d.len, head_len)
                   EXCEPT !.head = 0])

\* The slice make_contiguous returns: len slots starting at the head.
ContiguousSlice(d) == [k \in 1..d.len |-> d.buf[d.head + k]]

\* No Drain is open.
NoDrain == [open |-> FALSE, drain_len |-> 0, idx |-> 0, tail_len |-> 0, remaining |-> 0]

\* Drain::new: the deque's len is cut to drain_start for as long as the
\* Drain lives; the Drain owns the drain_len elements after it and remembers
\* how many (tail_len) follow them.
DrainNew(d, drain_start, drain_len) ==
    [d |-> [d EXCEPT !.len = drain_start],
     it |-> [open |-> TRUE, drain_len |-> drain_len, idx |-> drain_start,
             tail_len |-> d.len - drain_start - drain_len, remaining |-> drain_len]]

\* VecDeque::drain(start..end) -> the inner deque's
DequeDrainOp(d, start, end) == DrainNew(d, start, end - start)

\* Drain::next: the element at logical index idx, or None once all of the
\* range has been yielded.
DrainNextOp(d, it) ==
    IF it.remaining = 0
    THEN [it |-> it, ret |-> None]
    ELSE [it |-> [it EXCEPT !.idx = it.idx + 1, !.remaining = it.remaining - 1],
          ret |-> BufferRead(d, ToPhysicalIdx(d, it.idx))]

\* Drop for Drain, given how long the range to close is and how many
\* elements follow it: the elements not yet yielded are dropped and the
\* shorter of the two sides moves over the gap.
DrainClose(d, drain_len, tail_len) ==
    LET head_len == d.len
        new_len == head_len + tail_len
    IN
    IF head_len = 0 /\ tail_len = 0
    THEN Scrub([d EXCEPT !.head = 0, !.len = 0])
    ELSE IF head_len = 0
    THEN Scrub([d EXCEPT !.head = ToPhysicalIdx(d, drain_len), !.len = new_len])
    ELSE IF tail_len = 0
    THEN Scrub([d EXCEPT !.len = new_len])
    ELSE IF head_len <= tail_len
    THEN Scrub([WrapCopy(d, d.head, ToPhysicalIdx(d, drain_len), head_len)
                   EXCEPT !.head = ToPhysicalIdx(d, drain_len), !.len = new_len])
    ELSE Scrub([WrapCopy(d, ToPhysicalIdx(d, head_len + drain_len),
                         ToPhysicalIdx(d, head_len), tail_len)
                   EXCEPT !.len = new_len])

\* Mutant: only the elements that were yielded are removed.
DrainDropOp_YieldedOnly(d, it) ==
    DrainClose(d, it.drain_len - it.remaining, it.tail_len + it.remaining)

\* Drop for Drain
DrainDropOp(d, it) == DrainClose(d, it.drain_len, it.tail_len)

\* VecDeque::pop_front
DequePopFrontOp(d) ==
    IF d.len = 0
    THEN [d |-> d, ret |-> None]
    ELSE [d |-> Scrub([d EXCEPT !.head = ToPhysicalIdx(d, 1), !.len = d.len - 1]),
          ret |-> BufferRead(d, d.head)]

\* VecDeque::pop_back
DequePopBackOp(d) ==
    IF d.len = 0
    THEN [d |-> d, ret |-> None]
    ELSE [d |-> Scrub([d EXCEPT !.len = d.len - 1]),
          ret |-> BufferRead(d, ToPhysicalIdx(d, d.len - 1))]

\* Mutant: swap_remove_back, the last element taking the removed one's place.
DequeRemoveOp_SwapBack(d, index) ==
    IF d.len <= index
    THEN [d |-> d, ret |-> None]
    ELSE [d |-> Scrub([BufferWrite(d, ToPhysicalIdx(d, index),
                                   BufferRead(d, ToPhysicalIdx(d, d.len - 1)))
                          EXCEPT !.len = d.len - 1]),
          ret |-> BufferRead(d, ToPhysicalIdx(d, index))]

\* VecDeque::remove: None past the end, else close the gap from the
\* shorter side (k = len - index - 1 elements behind, index before).
DequeRemoveOp(d, index) ==
    IF d.len <= index
    THEN [d |-> d, ret |-> None]
    ELSE IF d.len - index - 1 < index
    THEN [d |-> Scrub([WrapCopy(d, WrapAdd(d, ToPhysicalIdx(d, index), 1),
                                ToPhysicalIdx(d, index), d.len - index - 1)
                          EXCEPT !.len = d.len - 1]),
          ret |-> BufferRead(d, ToPhysicalIdx(d, index))]
    ELSE [d |-> Scrub([WrapCopy(d, d.head, ToPhysicalIdx(d, 1), index)
                          EXCEPT !.head = ToPhysicalIdx(d, 1), !.len = d.len - 1]),
          ret |-> BufferRead(d, ToPhysicalIdx(d, index))]

\* VecDeque::as_slices: the window's one or two physical runs, in logical
\* order.
AsSlices(d) ==
    IF IsContiguous(d)
    THEN <<[k \in 1..d.len |-> d.buf[d.head + k]], <<>>>>
    ELSE <<[k \in 1..(Cap(d) - d.head) |-> d.buf[d.head + k]],
           [k \in 1..(d.len - (Cap(d) - d.head)) |-> d.buf[k]]>>

\* copy_slice: src written from offset dst on, wrapping at the capacity.
CopySlice(d, dst, src) ==
    [d EXCEPT !.buf = [p \in 1..Cap(d) |->
        LET k == WrapIndex(p - 1 - dst + Cap(d), Cap(d)) IN
        IF k < Len(src) THEN src[k + 1] ELSE d.buf[p]]]

\* The two copy_slice calls of the inner append, first taking a and then b,
\* and `self.len += other.len`.
AppendSlices(d, a, b) ==
    [CopySlice(CopySlice(d, ToPhysicalIdx(d, d.len), a),
               ToPhysicalIdx(d, d.len + Len(a)), b)
        EXCEPT !.len = d.len + Len(a) + Len(b)]

\* Mutant: the second run of other is copied before the first.
InnerAppendWrite_RightFirst(d, other) ==
    AppendSlices(d, AsSlices(other)[2], AsSlices(other)[1])

\* inner append: `let (left, right) = other.as_slices()`, copied to the back.
InnerAppendWrite(d, other) ==
    AppendSlices(d, AsSlices(other)[1], AsSlices(other)[2])

\* ... and `other.len = 0; other.head = 0`: its elements were moved out.
Emptied(other) == Scrub([other EXCEPT !.len = 0, !.head = 0])

\* The inner append's own (infallible) `self.reserve(other.len)`.
InnerReserve(r, additional) ==
    IF r.d.len + additional <= Cap(r.d)
    THEN r
    ELSE InnerGrown(r, DequeReserveOp(r.d, r.use, additional))

AppendInner(g, other) ==
    IF g.res # "ok"
    THEN [r |-> g, other |-> other]
    ELSE [r |-> [g EXCEPT !.d = InnerAppendWrite(g.d, other)], other |-> Emptied(other)]

\* Mutant: other is emptied before the reservation is asked for.
AppendAfterReserve_TakesFirst(r, other) ==
    IF r.res # "ok"
    THEN [r |-> r, other |-> Emptied(other)]
    ELSE AppendInner(InnerReserve(r, other.len), other)

\* `self.reserve(other.len())?;` answered r: an error returns before the
\* inner append.
AppendAfterReserve(r, other) ==
    IF r.res # "ok"
    THEN [r |-> r, other |-> other]
    ELSE AppendInner(InnerReserve(r, other.len), other)

\* VecDeque::append
DequeAppendOp(d, other, use) ==
    AppendAfterReserve(DequeReserveOp(d, use, other.len), other)

\* inner extend of the items of an exact-size iterator: its (infallible)
\* reserve answered g on top of r, then the items are written one after the
\* other at the back.
RECURSIVE InnerExtendWrite(_, _, _)
InnerExtendWrite(d, items, k) ==
    IF k > Len(items)
    THEN d
    ELSE InnerExtendWrite(InnerPushBack(d, items[k]), items, k + 1)

InnerExtendReserved(r, g, items) ==
    IF g.res # "ok"
    THEN [g EXCEPT !.res = "abort", !.nalloc = r.nalloc + g.nalloc,
                   !.innerGrow = g.nalloc > 0]
    ELSE [g EXCEPT !.d = InnerExtendWrite(g.d, items, 1),
                   !.nalloc = r.nalloc + g.nalloc,
                   !.ndealloc = r.ndealloc + g.ndealloc,
                   !.innerGrow = g.nalloc > 0]

InnerExtend(r, items) ==
    InnerExtendReserved(r, DequeReserveOp(r.d, r.use, Len(items)), items)

\* try_clone after `Self::with_capacity_in(self.len(), ..)` answered w:
\* `cloned.inner.extend(self.iter().cloned())`.
DequeTryCloneAfterAllocation(w, items) ==
    IF w.res # "ok"
    THEN w
    ELSE InnerExtend(w, items)

\* Mutant: the clone is given the source's capacity rather than its length.
DequeTryCloneOp_SourceCapacity(d, use) ==
    DequeTryCloneAfterAllocation(DequeWithCapacityInOp(Cap(d), use), DequeSeq(d))

\* Mutant: the elements are duplicated in the order of their slots.
DequeTryCloneOp_PhysicalOrder(d, use) ==
    DequeTryCloneAfterAllocation(DequeWithCapacityInOp(d.len, use),
                                 IF IsContiguous(d)
                                 THEN DequeSeq(d)
                                 ELSE AsSlices(d)[2] \o AsSlices(d)[1])

\* impl TryClone for VecDeque: try_clone
DequeTryCloneOp(d, use) ==
    DequeTryCloneAfterAllocation(DequeWithCapacityInOp(d.len, use), DequeSeq(d))

\* TryClone::try_clone_from, `*self = source.try_clone()?`, on VecDeque.
DequeTryCloneFromAssign(target, r) ==
    IF r.res # "ok"
    THEN [r EXCEPT !.d = target]
    ELSE [r EXCEPT !.use = DropUse(target, r.use),
                   !.ndealloc = r.ndealloc + DropCalls(target)]

DequeTryCloneFromOp(target, source, use) ==
    DequeTryCloneFromAssign(target, DequeTryCloneOp(source, use))

\* Mutant: clear that gives the buffer up.
DequeClearOp_Release(d) == [d EXCEPT !.buf = <<>>, !.head = 0, !.len = 0]

\* VecDeque::clear -> inner clear: truncate(0), then head = 0.
DequeClearOp(d) == [d EXCEPT !.buf = UninitSlots(Cap(d)), !.head = 0, !.len = 0]

\* ------------------------------------------------------------- the calls
\* ---------------------------------------------------------------- memory
\* Global.allocate hands out a block that overlaps no live block: blocks are
\* named 1, 2, 3 and a new one takes the first name no buffer lives in.
Blocks == 1..3

LiveBlocks(b) == {b.vec, b.deq, b.cvec, b.cdeq}

FreshBlock(b) == CHOOSE p \in Blocks : p \notin LiveBlocks(b) /\ \A q \in Blocks \ LiveBlocks(b) : p <= q

\* The block of a buffer after a call that took the container from old to
\* new with nalloc allocator calls: no capacity, no block; a buffer of a new
\* capacity that an allocation produced lives in a new block (growth copies
\* into it and releases the old one); otherwise the buffer stayed in place.
BlockAfter(b, mine, old, new, nalloc) ==
    IF Cap(new) = 0
    THEN 0
    ELSE IF nalloc > 0 /\ Cap(new) # Cap(old)
    THEN FreshBlock(b)
    ELSE mine

\* The block of the buffer try_clone returns: the one its allocation
\* produced; none for no capacity; and a buffer that no allocation produced
\* can only be the source's own.
BlockOfClone(b, source, new, nalloc) ==
    IF Cap(new) = 0
    THEN 0
    ELSE IF nalloc > 0
    THEN FreshBlock(b)
    ELSE source

\* What the container c, whose buffer lives in block mine, holds after a
\* call on another container moved that one from block was to block now
\* with buffer buf: nothing changes for c unless the two share a block, in
\* which case c sees the other's writes, or released memory.
SeenThrough(c, mine, was, now, buf) ==
    IF mine = 0 \/ mine # was
    THEN c
    ELSE IF now = was
    THEN [c EXCEPT !.buf = [k \in 1..Cap(c) |-> IF k <= Len(buf) THEN buf[k] ELSE c.buf[k]]]
    ELSE [c EXCEPT !.buf = UninitSlots(Cap(c))]

L0 == [op |-> "init", on |-> "none", res |-> "ok", ret |-> None,
       nalloc |-> 0, ndealloc |-> 0, x |-> 0, i |-> 0, n |-> 0,
       s |-> <<>>, h |-> 0, nones |-> 0, innerGrow |-> FALSE, calls |-> 0,
       eq |-> FALSE, ne |-> FALSE, old |-> <<>>]

Additionals == (0..MaxAdd) \cup {USIZE_MAX}

CapReqs == (0..MaxCapReq) \cup {USIZE_MAX}

IterSeqs == UNION {[1..k -> Values] : k \in 0..MaxIterLen}

\* The value scripts of the producers handed to resize_with.
Scripts == [1..2 -> Values]

Init ==
    /\ vec = NoVec
    /\ deq = NoDeque
    /\ inUse = 0
    /\ last = L0
    /\ credit = [vec |-> 0, deq |-> 0]
    /\ cloned = [vec |-> NoVec, deq |-> NoDeque]
    /\ block = [vec |-> 0, deq |-> 0, cvec |-> 0, cdeq |-> 0]
    /\ drain = NoDrain
    /\ thr = [t \in Threads |-> IdleThread(<<>>)]

NoneAlive == ~vec.alive /\ ~deq.alive /\ ~cloned.vec.alive /\ ~cloned.deq.alive

\* A call on the Vec: where its buffer lives afterwards, and what the
\* other containers hold.
VecMoved ==
    /\ block' = [block EXCEPT !.vec = BlockAfter(block, block.vec, vec, vec', last'.nalloc)]
    /\ cloned' = [cloned EXCEPT
                    !.vec = SeenThrough(cloned.vec, block.cvec, block.vec, block'.vec, vec'.buf)]

\* A call on the VecDeque, likewise.
DequeMoved ==
    /\ block' = [block EXCEPT !.deq = BlockAfter(block, block.deq, deq, deq', last'.nalloc)]
    /\ cloned' = [cloned EXCEPT
                    !.deq = SeenThrough(cloned.deq, block.cdeq, block.deq, block'.deq, deq'.buf)]

VecNewIn ==
    /\ NoneAlive
    /\ vec' = VecNewInOp
    /\ last' = [L0 EXCEPT !.op = "new_in", !.on = "vec"]
    /\ credit' = [credit EXCEPT !.vec = 0]
    /\ UNCHANGED <<deq, inUse, drain, thr>>
    /\ VecMoved

VecWithCapacityIn ==
    /\ NoneAlive
    /\ \E n \in CapReqs :
        \E r \in {VecWithCapacityInOp(n, inUse)} :
        /\ vec' = r.v
        /\ inUse' = r.use
        /\ last' = [L0 EXCEPT !.op = "with_capacity_in", !.on = "vec", !.res = r.res,
                              !.n = n, !.nalloc = r.nalloc, !.ndealloc = r.ndealloc]
    /\ credit' = [credit EXCEPT !.vec = 0]
    /\ UNCHANGED <<deq, drain, thr>>
    /\ VecMoved

VecReserve ==
    /\ vec.alive
    /\ \E n \in Additionals :
        \E r \in {VecReserveOp(vec, inUse, n)} :
        /\ vec' = r.v
        /\ inUse' = r.use
        /\ last' = [L0 EXCEPT !.op = "reserve", !.on = "vec", !.res = r.res,
                              !.n = n, !.nalloc = r.nalloc, !.ndealloc = r.ndealloc]
        /\ credit' = [credit EXCEPT !.vec = IF r.res = "ok" /\ n <= MaxAdd THEN n ELSE 0]
    /\ UNCHANGED <<deq, drain, thr>>
    /\ VecMoved

VecPush ==
    /\ vec.alive
    /\ \E x \in Values :
        \E r \in {VecPushOp(vec, inUse, x)} :
        /\ vec' = r.v
        /\ inUse' = r.use
        /\ last' = [L0 EXCEPT !.op = "push", !.on = "vec", !.res = r.res,
                              !.x = x, !.nalloc = r.nalloc, !.ndealloc = r.ndealloc]
    /\ credit' = [credit EXCEPT !.vec = Max(credit.vec - 1, 0)]
    /\ UNCHANGED <<deq, drain, thr>>
    /\ VecMoved

VecExtend ==
    /\ vec.alive
    /\ \E s \in IterSeqs, h \in 0..MaxHint :
        \E r \in {VecExtendOp(vec, inUse, s, h)} :
        /\ vec' = r.v
        /\ inUse' = r.use
        /\ last' = [L0 EXCEPT !.op = "extend", !.on = "vec", !.res = r.res,
                              !.s = s, !.h = h, !.nones = r.nones,
                              !.nalloc = r.nalloc, !.ndealloc = r.ndealloc]
    /\ credit' = [credit EXCEPT !.vec = 0]
    /\ UNCHANGED <<deq, drain, thr>>
    /\ VecMoved

VecTruncate ==
    /\ vec.alive
    /\ \E n \in 0..MaxAdd :
        /\ vec' = VecTruncateOp(vec, n)
        /\ last' = [L0 EXCEPT !.op = "truncate", !.on = "vec", !.n = n]
    /\ credit' = [credit EXCEPT !.vec = 0]
    /\ UNCHANGED <<deq, inUse, drain, thr>>
    /\ VecMoved

VecClear ==
    /\ vec.alive
    /\ vec' = VecClearOp(vec)
    /\ last' = [L0 EXCEPT !.op = "clear", !.on = "vec"]
    /\ credit' = [credit EXCEPT !.vec = 0]
    /\ UNCHANGED <<deq, inUse, drain, thr>>
    /\ VecMoved

\* Indexing at or past len panics: only index < len.
VecIndexMut ==
    /\ vec.alive
    /\ \E i \in 0..(vec.len - 1), x \in Values :
        /\ vec' = VecIndexMutOp(vec, i, x)
        /\ last' = [L0 EXCEPT !.op = "index_mut", !.on = "vec", !.i = i, !.x = x]
    /\ credit' = [credit EXCEPT !.vec = 0]
    /\ UNCHANGED <<deq, inUse, drain, thr>>
    /\ VecMoved

VecExtendFromSlice ==
    /\ vec.alive
    /\ \E s \in IterSeqs :
        \E r \in {VecExtendFromSliceOp(vec, inUse, s)} :
        /\ vec' = r.v
        /\ inUse' = r.use
        /\ last' = [L0 EXCEPT !.op = "extend_from_slice", !.on = "vec", !.res = r.res,
                              !.s = s, !.nalloc = r.nalloc, !.ndealloc = r.ndealloc,
                              !.innerGrow = r.innerGrow]
    /\ credit' = [credit EXCEPT !.vec = 0]
    /\ UNCHANGED <<deq, drain, thr>>
    /\ VecMoved

VecExtendWith ==
    /\ vec.alive
    /\ \E n \in Additionals, x \in Values :
        \E r \in {VecExtendWithOp(vec, inUse, n, x)} :
        /\ vec' = r.v
        /\ inUse' = r.use
        /\ last' = [L0 EXCEPT !.op = "extend_with", !.on = "vec", !.res = r.res,
                              !.n = n, !.x = x, !.nalloc = r.nalloc, !.ndealloc = r.ndealloc]
    /\ credit' = [credit EXCEPT !.vec = 0]
    /\ UNCHANGED <<deq, drain, thr>>
    /\ VecMoved

VecResize ==
    /\ vec.alive
    /\ \E n \in CapReqs, x \in Values :
        \E r \in {VecResizeOp(vec, inUse, n, x)} :
        /\ vec' = r.v
        /\ inUse' = r.use
        /\ last' = [L0 EXCEPT !.op = "resize", !.on = "vec", !.res = r.res,
                              !.n = n, !.x = x, !.nalloc = r.nalloc, !.ndealloc = r.ndealloc]
    /\ credit' = [credit EXCEPT !.vec = 0]
    /\ UNCHANGED <<deq, drain, thr>>
    /\ VecMoved

VecResizeWith ==
    /\ vec.alive
    /\ \E n \in CapReqs, script \in Scripts :
        \E r \in {VecResizeWithOp(vec, inUse, n, ProducerOf(script))} :
        /\ vec' = r.v
        /\ inUse' = r.use
        /\ last' = [L0 EXCEPT !.op = "resize_with", !.on = "vec", !.res = r.res,
                              !.n = n, !.s = script, !.calls = r.calls,
                              !.nalloc = r.nalloc, !.ndealloc = r.ndealloc]
    /\ credit' = [credit EXCEPT !.vec = 0]
    /\ UNCHANGED <<deq, drain, thr>>
    /\ VecMoved

VecDrop ==
    /\ vec.alive
    /\ vec' = NoVec
    /\ inUse' = DropUse(vec, inUse)
    /\ last' = [L0 EXCEPT !.op = "drop", !.on = "vec",
                          !.ndealloc = IF Cap(vec) > 0 THEN 1 ELSE 0]
    /\ credit' = [credit EXCEPT !.vec = 0]
    /\ UNCHANGED <<deq, drain, thr>>
    /\ VecMoved

DequeNewIn ==
    /\ NoneAlive
    /\ deq' = DequeNewInOp
    /\ last' = [L0 EXCEPT !.op = "new_in", !.on = "deq"]
    /\ credit' = [credit EXCEPT !.deq = 0]
    /\ UNCHANGED <<vec, inUse, drain, thr>>
    /\ DequeMoved

DequeWithCapacityIn ==
    /\ NoneAlive
    /\ \E n \in CapReqs :
        \E r \in {DequeWithCapacityInOp(n, inUse)} :
        /\ deq' = r.d
        /\ inUse' = r.use
        /\ last' = [L0 EXCEPT !.op = "with_capacity_in", !.on = "deq", !.res = r.res,
                              !.n = n, !.nalloc = r.nalloc, !.ndealloc = r.ndealloc]
    /\ credit' = [credit EXCEPT !.deq = 0]
    /\ UNCHANGED <<vec, drain, thr>>
    /\ DequeMoved

DequeReserve ==
    /\ deq.alive
    /\ \E n \in Additionals :
        \E r \in {DequeReserveOp(deq, inUse, n)} :
        /\ deq' = r.d
        /\ inUse' = r.use
        /\ last' = [L0 EXCEPT !.op = "reserve", !.on = "deq", !.res = r.res,
                              !.n = n, !.nalloc = r.nalloc, !.ndealloc = r.ndealloc]
        /\ credit' = [credit EXCEPT !.deq = IF r.res = "ok" /\ n <= MaxAdd THEN n ELSE 0]
    /\ UNCHANGED <<vec, drain, thr>>
    /\ DequeMoved

DequePushBack ==
    /\ deq.alive
    /\ \E x \in Values :
        \E r \in {DequePushBackOp(deq, inUse, x)} :
        /\ deq' = r.d
        /\ inUse' = r.use
        /\ last' = [L0 EXCEPT !.op = "push_back", !.on = "deq", !.res = r.res, !.x = x,
                              !.nalloc = r.nalloc, !.ndealloc = r.ndealloc,
                              !.innerGrow = r.innerGrow]
    /\ credit' = [credit EXCEPT !.deq = Max(credit.deq - 1, 0)]
    /\ UNCHANGED <<vec, drain, thr>>
    /\ DequeMoved

DequePushFront ==
    /\ deq.alive
    /\ \E x \in Values :
        \E r \in {DequePushFrontOp(deq, inUse, x)} :
        /\ deq' = r.d
        /\ inUse' = r.use
        /\ last' = [L0 EXCEPT !.op = "push_front", !.on = "deq", !.res = r.res, !.x = x,
                              !.nalloc = r.nalloc, !.ndealloc = r.ndealloc,
                              !.innerGrow = r.innerGrow]
    /\ credit' = [credit EXCEPT !.deq = Max(credit.deq - 1, 0)]
    /\ UNCHANGED <<vec, drain, thr>>
    /\ DequeMoved

\* insert past the end panics ("index out of bounds"): only index <= len.
DequeInsert ==
    /\ deq.alive
    /\ \E x \in Values, i \in 0..deq.len :
        \E r \in {DequeInsertOp(deq, inUse, i, x)} :
        /\ deq' = r.d
        /\ inUse' = r.use
        /\ last' = [L0 EXCEPT !.op = "insert", !.on = "deq", !.res = r.res, !.x = x,
                              !.i = i, !.nalloc = r.nalloc, !.ndealloc = r.ndealloc,
                              !.innerGrow = r.innerGrow]
    /\ credit' = [credit EXCEPT !.deq = 0]
    /\ UNCHANGED <<vec, drain, thr>>
    /\ DequeMoved

DequePopFront ==
    /\ deq.alive
    /\ \E r \in {DequePopFrontOp(deq)} :
        /\ deq' = r.d
        /\ last' = [L0 EXCEPT !.op = "pop_front", !.on = "deq", !.ret = r.ret]
    /\ credit' = [credit EXCEPT !.deq = 0]
    /\ UNCHANGED <<vec, inUse, drain, thr>>
    /\ DequeMoved

DequePopBack ==
    /\ deq.alive
    /\ \E r \in {DequePopBackOp(deq)} :
        /\ deq' = r.d
        /\ last' = [L0 EXCEPT !.op = "pop_back", !.on = "deq", !.ret = r.ret]
    /\ credit' = [credit EXCEPT !.deq = 0]
    /\ UNCHANGED <<vec, inUse, drain, thr>>
    /\ DequeMoved

DequeRemove ==
    /\ deq.alive
    /\ \E i \in 0..deq.len :
        \E r \in {DequeRemoveOp(deq, i)} :
        /\ deq' = r.d
        /\ last' = [L0 EXCEPT !.op = "remove", !.on = "deq", !.ret = r.ret, !.i = i]
    /\ credit' = [credit EXCEPT !.deq = 0]
    /\ UNCHANGED <<vec, inUse, drain, thr>>
    /\ DequeMoved

DequeClear ==
    /\ deq.alive
    /\ deq' = DequeClearOp(deq)
    /\ last' = [L0 EXCEPT !.op = "clear", !.on = "deq"]
    /\ credit' = [credit EXCEPT !.deq = 0]
    /\ UNCHANGED <<vec, inUse, drain, thr>>
    /\ DequeMoved

DequeDrop ==
    /\ deq.alive
    /\ deq' = NoDeque
    /\ inUse' = DropUse(deq, inUse)
    /\ last' = [L0 EXCEPT !.op = "drop", !.on = "deq",
                          !.ndealloc = IF Cap(deq) > 0 THEN 1 ELSE 0]
    /\ credit' = [credit EXCEPT !.deq = 0]
    /\ UNCHANGED <<vec, drain, thr>>
    /\ DequeMoved

\* A call on the cloned Vec: where its buffer lives afterwards, and what
\* the Vec it was cloned from holds.
ClonedVecMoved ==
    /\ block' = [block EXCEPT
                   !.cvec = BlockAfter(block, block.cvec, cloned.vec, cloned'.vec, last'.nalloc)]
    /\ vec' = SeenThrough(vec, block.vec, block.cvec, block'.cvec, cloned'.vec.buf)

ClonedDequeMoved ==
    /\ block' = [block EXCEPT
                   !.cdeq = BlockAfter(block, block.cdeq, cloned.deq, cloned'.deq, last'.nalloc)]
    /\ deq' = SeenThrough(deq, block.deq, block.cdeq, block'.cdeq, cloned'.deq.buf)

\* `let vec2 = vec1.try_clone()`: one clone is kept at a time.
VecTryClone ==
    /\ vec.alive /\ ~cloned.vec.alive
    /\ \E r \in {VecTryCloneOp(vec, inUse)} :
        /\ cloned' = [cloned EXCEPT !.vec = r.v]
        /\ inUse' = r.use
        /\ last' = [L0 EXCEPT !.op = "try_clone", !.on = "vec", !.res = r.res,
                              !.nalloc = r.nalloc, !.ndealloc = r.ndealloc,
                              !.innerGrow = r.innerGrow]
        /\ block' = [block EXCEPT !.cvec = BlockOfClone(block, block.vec, r.v, r.nalloc)]
    /\ UNCHANGED <<vec, deq, credit, drain, thr>>

\* `vec2.try_clone_from(&vec1)`
ClonedVecTryCloneFrom ==
    /\ vec.alive /\ cloned.vec.alive
    /\ \E r \in {VecTryCloneFromOp(cloned.vec, vec, inUse)} :
        /\ cloned' = [cloned EXCEPT !.vec = r.v]
        /\ inUse' = r.use
        /\ last' = [L0 EXCEPT !.op = "try_clone_from", !.on = "cvec", !.res = r.res,
                              !.nalloc = r.nalloc, !.ndealloc = r.ndealloc,
                              !.innerGrow = r.innerGrow]
        /\ block' = [block EXCEPT
                       !.cvec = IF r.res = "ok"
                                THEN BlockOfClone(block, block.vec, r.v, r.nalloc)
                                ELSE block.cvec]
    /\ vec' = SeenThrough(vec, block.vec, block.cvec, block'.cvec, cloned'.vec.buf)
    /\ UNCHANGED <<deq, credit, drain, thr>>

ClonedVecPush ==
    /\ cloned.vec.alive
    /\ \E x \in Values :
        \E r \in {VecPushOp(cloned.vec, inUse, x)} :
        /\ cloned' = [cloned EXCEPT !.vec = r.v]
        /\ inUse' = r.use
        /\ last' = [L0 EXCEPT !.op = "push", !.on = "cvec", !.res = r.res,
                              !.x = x, !.nalloc = r.nalloc, !.ndealloc = r.ndealloc]
    /\ UNCHANGED <<deq, credit, drain, thr>>
    /\ ClonedVecMoved

ClonedVecIndexMut ==
    /\ cloned.vec.alive
    /\ \E i \in 0..(cloned.vec.len - 1), x \in Values :
        /\ cloned' = [cloned EXCEPT !.vec = VecIndexMutOp(cloned.vec, i, x)]
        /\ last' = [L0 EXCEPT !.op = "index_mut", !.on = "cvec", !.i = i, !.x = x]
    /\ UNCHANGED <<deq, inUse, credit, drain, thr>>
    /\ ClonedVecMoved

ClonedVecTruncate ==
    /\ cloned.vec.alive
    /\ \E n \in 0..MaxAdd :
        /\ cloned' = [cloned EXCEPT !.vec = VecTruncateOp(cloned.vec, n)]
        /\ last' = [L0 EXCEPT !.op = "truncate", !.on = "cvec", !.n = n]
    /\ UNCHANGED <<deq, inUse, credit, drain, thr>>
    /\ ClonedVecMoved

ClonedVecDrop ==
    /\ cloned.vec.alive
    /\ cloned' = [cloned EXCEPT !.vec = NoVec]
    /\ inUse' = DropUse(cloned.vec, inUse)
    /\ last' = [L0 EXCEPT !.op = "drop", !.on = "cvec", !.ndealloc = DropCalls(cloned.vec)]
    /\ UNCHANGED <<deq, credit, drain, thr>>
    /\ ClonedVecMoved

DequeTryClone ==
    /\ deq.alive /\ ~cloned.deq.alive
    /\ \E r \in {DequeTryCloneOp(deq, inUse)} :
        /\ cloned' = [cloned EXCEPT !.deq = r.d]
        /\ inUse' = r.use
        /\ last' = [L0 EXCEPT !.op = "try_clone", !.on = "deq", !.res = r.res,
                              !.nalloc = r.nalloc, !.ndealloc = r.ndealloc,
                              !.innerGrow = r.innerGrow]
        /\ block' = [block EXCEPT !.cdeq = BlockOfClone(block, block.deq, r.d, r.nalloc)]
    /\ UNCHANGED <<vec, deq, credit, drain, thr>>

ClonedDequeTryCloneFrom ==
    /\ deq.alive /\ cloned.deq.alive
    /\ \E r \in {DequeTryCloneFromOp(cloned.deq, deq, inUse)} :
        /\ cloned' = [cloned EXCEPT !.deq = r.d]
        /\ inUse' = r.use
        /\ last' = [L0 EXCEPT !.op = "try_clone_from", !.on = "cdeq", !.res = r.res,
                              !.nalloc = r.nalloc, !.ndealloc = r.ndealloc,
                              !.innerGrow = r.innerGrow]
        /\ block' = [block EXCEPT
                       !.cdeq = IF r.res = "ok"
                                THEN BlockOfClone(block, block.deq, r.d, r.nalloc)
                                ELSE block.cdeq]
    /\ deq' = SeenThrough(deq, block.deq, block.cdeq, block'.cdeq, cloned'.deq.buf)
    /\ UNCHANGED <<vec, credit, drain, thr>>

ClonedDequePushBack ==
    /\ cloned.deq.alive
    /\ \E x \in Values :
        \E r \in {DequePushBackOp(cloned.deq, inUse, x)} :
        /\ cloned' = [cloned EXCEPT !.deq = r.d]
        /\ inUse' = r.use
        /\ last' = [L0 EXCEPT !.op = "push_back", !.on = "cdeq", !.res = r.res, !.x = x,
                              !.nalloc = r.nalloc, !.ndealloc = r.ndealloc,
                              !.innerGrow = r.innerGrow]
    /\ UNCHANGED <<vec, credit, drain, thr>>
    /\ ClonedDequeMoved

ClonedDequePopFront ==
    /\ cloned.deq.alive
    /\ \E r \in {DequePopFrontOp(cloned.deq)} :
        /\ cloned' = [cloned EXCEPT !.deq = r.d]
        /\ last' = [L0 EXCEPT !.op = "pop_front", !.on = "cdeq", !.ret = r.ret]
    /\ UNCHANGED <<vec, inUse, credit, drain, thr>>
    /\ ClonedDequeMoved

ClonedDequeRemove ==
    /\ cloned.deq.alive
    /\ \E i \in 0..cloned.deq.len :
        \E r \in {DequeRemoveOp(cloned.deq, i)} :
        /\ cloned' = [cloned EXCEPT !.deq = r.d]
        /\ last' = [L0 EXCEPT !.op = "remove", !.on = "cdeq", !.ret = r.ret, !.i = i]
    /\ UNCHANGED <<vec, inUse, credit, drain, thr>>
    /\ ClonedDequeMoved

ClonedDequeDrop ==
    /\ cloned.deq.alive
    /\ cloned' = [cloned EXCEPT !.deq = NoDeque]
    /\ inUse' = DropUse(cloned.deq, inUse)
    /\ last' = [L0 EXCEPT !.op = "drop", !.on = "cdeq", !.ndealloc = DropCalls(cloned.deq)]
    /\ UNCHANGED <<vec, credit, drain, thr>>
    /\ ClonedDequeMoved

\* `vec1 == vec2` and `vec1 != vec2`, the two Vecs having their own
\* capacities.
VecEqCloned ==
    /\ vec.alive /\ cloned.vec.alive
    /\ last' = [L0 EXCEPT !.op = "eq", !.on = "vec",
                          !.eq = VecEq(vec, cloned.vec), !.ne = VecNe(vec, cloned.vec)]
    /\ UNCHANGED <<vec, deq, inUse, credit, cloned, block, drain, thr>>

\* `vec2 == vec1` and `vec2 != vec1`
ClonedVecEq ==
    /\ vec.alive /\ cloned.vec.alive
    /\ last' = [L0 EXCEPT !.op = "eq", !.on = "cvec",
                          !.eq = VecEq(cloned.vec, vec), !.ne = VecNe(cloned.vec, vec)]
    /\ UNCHANGED <<vec, deq, inUse, credit, cloned, block, drain, thr>>

\* `vec == slice` and `vec != slice`, s being the &[U], &mut [U], [U],
\* [U; N] or &[U; N]: self[..] == other[..] again.
VecEqSliceCall ==
    /\ vec.alive
    /\ \E s \in IterSeqs :
        last' = [L0 EXCEPT !.op = "eq_slice", !.on = "vec", !.s = s,
                           !.eq = SliceEq(VecSlice(vec), s),
                           !.ne = SliceNe(VecSlice(vec), s)]
    /\ UNCHANGED <<vec, deq, inUse, credit, cloned, block, drain, thr>>

\* `slice == vec` and `slice != vec`
SliceEqVecCall ==
    /\ vec.alive
    /\ \E s \in IterSeqs :
        last' = [L0 EXCEPT !.op = "eq_slice", !.on = "slice", !.s = s,
                           !.eq = SliceEq(s, VecSlice(vec)),
                           !.ne = SliceNe(s, VecSlice(vec))]
    /\ UNCHANGED <<vec, deq, inUse, credit, cloned, block, drain, thr>>

\* A Drain borrows the deque mutably: no other call on the deque until the
\* Drain is released.
DequeIdle == ~drain.open

\* `deque.get(i)`, past the end included.
DequeGetCall ==
    /\ deq.alive /\ DequeIdle
    /\ \E i \in 0..(deq.len + 1) :
        last' = [L0 EXCEPT !.op = "get", !.on = "deq", !.i = i, !.ret = DequeGet(deq, i)]
    /\ UNCHANGED <<vec, deq, inUse, credit, cloned, block, drain, thr>>

\* `if let Some(value) = deque.get_mut(i) { *value = x }`
DequeGetMut ==
    /\ deq.alive /\ DequeIdle
    /\ \E i \in 0..(deq.len + 1), x \in Values :
        \E r \in {DequeGetMutOp(deq, i, x)} :
        /\ deq' = r.d
        /\ last' = [L0 EXCEPT !.op = "get_mut", !.on = "deq", !.i = i, !.x = x,
                              !.ret = r.ret]
    /\ UNCHANGED <<vec, inUse, credit, drain, thr>>
    /\ DequeMoved

\* `deque.make_contiguous()`
DequeMakeContiguous ==
    /\ deq.alive /\ DequeIdle
    /\ \E r \in {MakeContiguousOp(deq)} :
        /\ deq' = r
        /\ last' = [L0 EXCEPT !.op = "make_contiguous", !.on = "deq",
                              !.s = ContiguousSlice(r)]
    /\ credit' = [credit EXCEPT !.deq = 0]
    /\ UNCHANGED <<vec, inUse, drain, thr>>
    /\ DequeMoved

\* `let drained = deque.drain(i..j)`; a range past the end panics.
DequeDrain ==
    /\ deq.alive /\ DequeIdle
    /\ \E i \in 0..deq.len :
        \E j \in i..deq.len :
        \E r \in {DequeDrainOp(deq, i, j)} :
        /\ deq' = r.d
        /\ drain' = r.it
        /\ last' = [L0 EXCEPT !.op = "drain", !.on = "deq", !.i = i, !.n = j,
                              !.old = DequeSeq(deq)]
    /\ credit' = [credit EXCEPT !.deq = 0]
    /\ UNCHANGED <<vec, inUse, thr>>
    /\ DequeMoved

\* `drained.next()`: last.s collects what the Drain has yielded.
DrainNext ==
    /\ drain.open
    /\ \E r \in {DrainNextOp(deq, drain)} :
        /\ drain' = r.it
        /\ last' = [last EXCEPT !.op = "drain_next", !.ret = r.ret,
                                !.s = IF r.ret = None THEN @ ELSE Append(@, r.ret)]
    /\ UNCHANGED <<vec, deq, inUse, credit, cloned, block, thr>>

\* `drop(drained)`
DrainDrop ==
    /\ drain.open
    /\ deq' = DrainDropOp(deq, drain)
    /\ drain' = NoDrain
    /\ last' = [last EXCEPT !.op = "drain_drop", !.ret = None]
    /\ UNCHANGED <<vec, inUse, credit, thr>>
    /\ DequeMoved

\* `deque1.append(&mut deque2)`, the two sharing the allocator; last.old is
\* what deque2 held.
DequeAppend ==
    /\ deq.alive /\ cloned.deq.alive /\ DequeIdle
    /\ \E a \in {DequeAppendOp(deq, cloned.deq, inUse)} :
        /\ deq' = a.r.d
        /\ cloned' = [cloned EXCEPT !.deq = a.other]
        /\ inUse' = a.r.use
        /\ last' = [L0 EXCEPT !.op = "append", !.on = "deq", !.res = a.r.res,
                              !.nalloc = a.r.nalloc, !.ndealloc = a.r.ndealloc,
                              !.innerGrow = a.r.innerGrow, !.old = DequeSeq(cloned.deq)]
    /\ block' = [block EXCEPT !.deq = BlockAfter(block, block.deq, deq, deq', last'.nalloc)]
    /\ credit' = [credit EXCEPT !.deq = 0]
    /\ UNCHANGED <<vec, drain, thr>>

\* `deque2.append(&mut deque1)`
ClonedDequeAppend ==
    /\ deq.alive /\ cloned.deq.alive /\ DequeIdle
    /\ \E a \in {DequeAppendOp(cloned.deq, deq, inUse)} :
        /\ cloned' = [cloned EXCEPT !.deq = a.r.d]
        /\ deq' = a.other
        /\ inUse' = a.r.use
        /\ last' = [L0 EXCEPT !.op = "append", !.on = "cdeq", !.res = a.r.res,
                              !.nalloc = a.r.nalloc, !.ndealloc = a.r.ndealloc,
                              !.innerGrow = a.r.innerGrow, !.old = DequeSeq(deq)]
    /\ block' = [block EXCEPT
                   !.cdeq = BlockAfter(block, block.cdeq, cloned.deq, cloned'.deq, last'.nalloc)]
    /\ credit' = [credit EXCEPT !.deq = 0]
    /\ UNCHANGED <<vec, drain, thr>>

\* The reading calls of the VecDeque: len, capacity, is_empty, front, back,
\* contains, iter. They take &self and delegate to the inner deque.
DequeRead ==
    /\ deq.alive /\ DequeIdle
    /\ \/ last' = [L0 EXCEPT !.op = "len", !.on = "deq", !.n = deq.len]
       \/ last' = [L0 EXCEPT !.op = "capacity", !.on = "deq", !.n = Cap(deq)]
       \/ last' = [L0 EXCEPT !.op = "is_empty", !.on = "deq", !.eq = (deq.len = 0)]
       \/ last' = [L0 EXCEPT !.op = "front", !.on = "deq", !.ret = DequeGet(deq, 0)]
       \/ last' = [L0 EXCEPT !.op = "back", !.on = "deq",
                             !.ret = IF deq.len = 0 THEN None
                                     ELSE DequeGet(deq, deq.len - 1)]
       \/ \E x \in Values :
            last' = [L0 EXCEPT !.op = "contains", !.on = "deq", !.x = x,
                               !.eq = \E i \in 0..(deq.len - 1) : DequeGet(deq, i) = x]
       \/ last' = [L0 EXCEPT !.op = "iter", !.on = "deq", !.s = DequeSeq(deq)]
    /\ UNCHANGED <<vec, deq, inUse, credit, cloned, block, drain, thr>>

\* The reading calls of the Vec: len, capacity, is_empty, iter / as_slice.
VecRead ==
    /\ vec.alive
    /\ \/ last' = [L0 EXCEPT !.op = "len", !.on = "vec", !.n = vec.len]
       \/ last' = [L0 EXCEPT !.op = "capacity", !.on = "vec", !.n = Cap(vec)]
       \/ last' = [L0 EXCEPT !.op = "is_empty", !.on = "vec", !.eq = (vec.len = 0)]
       \/ last' = [L0 EXCEPT !.op = "iter", !.on = "vec", !.s = VecSlice(vec)]
    /\ UNCHANGED <<vec, deq, inUse, credit, cloned, block, drain, thr>>

NextVec ==
    \/ VecNewIn
    \/ VecWithCapacityIn
    \/ VecReserve
    \/ VecPush
    \/ VecExtend
    \/ VecTruncate
    \/ VecClear
    \/ VecIndexMut
    \/ VecExtendFromSlice
    \/ VecExtendWith
    \/ VecResize
    \/ VecResizeWith
    \/ VecDrop

NextDeque ==
    \/ DequeNewIn
    \/ DequeWithCapacityIn
    \/ DequeReserve
    \/ DequePushBack
    \/ DequePushFront
    \/ DequeInsert
    \/ DequePopFront
    \/ DequePopBack
    \/ DequeRemove
    \/ DequeClear
    \/ DequeDrop

Next ==
    \/ NextVec
    \/ NextDeque

\* A container, the clone try_clone made of it, and calls on either.
NextClone ==
    \/ VecNewIn
    \/ VecWithCapacityIn
    \/ VecPush
    \/ VecIndexMut
    \/ VecTruncate
    \/ VecDrop
    \/ VecTryClone
    \/ ClonedVecTryCloneFrom
    \/ ClonedVecPush
    \/ ClonedVecIndexMut
    \/ ClonedVecTruncate
    \/ ClonedVecDrop
    \/ DequeNewIn
    \/ DequePushBack
    \/ DequePushFront
    \/ DequeInsert
    \/ DequePopFront
    \/ DequePopBack
    \/ DequeRemove
    \/ DequeDrop
    \/ DequeTryClone
    \/ ClonedDequeTryCloneFrom
    \/ ClonedDequePushBack
    \/ ClonedDequePopFront
    \/ ClonedDequeRemove
    \/ ClonedDequeDrop

\* Two Vecs of different capacities, slices, and the comparisons of them.
NextEq ==
    \/ VecNewIn
    \/ VecWithCapacityIn
    \/ VecPush
    \/ VecIndexMut
    \/ VecTruncate
    \/ VecDrop
    \/ VecTryClone
    \/ ClonedVecPush
    \/ ClonedVecIndexMut
    \/ ClonedVecTruncate
    \/ ClonedVecDrop
    \/ VecEqCloned
    \/ ClonedVecEq
    \/ VecEqSliceCall
    \/ SliceEqVecCall

\* The VecDeque alone, with the calls that read and rearrange the ring.
NextRing ==
    \/ DequeIdle /\ NextDeque
    \/ DequeGetCall
    \/ DequeGetMut
    \/ DequeMakeContiguous

\* The VecDeque and the Drain of a range of it.
NextDrain ==
    \/ DequeIdle /\ DequeNewIn
    \/ DequeIdle /\ DequeWithCapacityIn
    \/ DequeIdle /\ DequePushBack
    \/ DequeIdle /\ DequePushFront
    \/ DequeIdle /\ DequePopFront
    \/ DequeIdle /\ DequeDrop
    \/ DequeDrain
    \/ DrainNext
    \/ DrainDrop

\* Two VecDeques on one allocator, and append from either into the other.
NextAppend ==
    \/ DequeNewIn
    \/ DequeWithCapacityIn
    \/ DequePushBack
    \/ DequePushFront
    \/ DequePopFront
    \/ DequeDrop
    \/ DequeTryClone
    \/ ClonedDequePushBack
    \/ ClonedDequePopFront
    \/ ClonedDequeDrop
    \/ DequeAppend
    \/ ClonedDequeAppend

\* Every call of either container that is not meant to reach the
\* allocator, next to those that are.
NextFrame ==
    \/ DequeIdle /\ NextDeque
    \/ DequeGetCall
    \/ DequeGetMut
    \/ DequeRead
    \/ DequeMakeContiguous
    \/ DequeDrain
    \/ DrainNext
    \/ DrainDrop
    \/ VecNewIn
    \/ VecWithCapacityIn
    \/ VecPush
    \/ VecTruncate
    \/ VecClear
    \/ VecRead
    \/ VecDrop

\* A thread enters allocate(layout): the load and the first test.
AllocateLoad ==
    /\ NoneAlive
    /\ \E t \in Threads, size \in AllocSizes :
        /\ thr[t].pc = "idle" /\ Len(thr[t].held) < MaxHeld
        /\ \E r \in {AllocateEnter(thr[t], inUse, size)} :
            /\ thr' = [thr EXCEPT ![t] = r.th]
            /\ last' = [L0 EXCEPT !.op = "allocate", !.on = "thread", !.res = r.res,
                                  !.n = size]
    /\ UNCHANGED <<vec, deq, inUse, credit, cloned, block, drain>>

\* ... and goes through the fetch_add to the end of the call.
AllocateFetchAdd ==
    /\ \E t \in Threads :
        /\ thr[t].pc = "allocating"
        /\ \E r \in {AllocateFetchAddOp(thr[t], inUse)} :
            /\ thr' = [thr EXCEPT ![t] = r.th]
            /\ inUse' = r.use
            /\ last' = [L0 EXCEPT !.op = "allocate", !.on = "thread", !.res = r.res,
                                  !.n = thr[t].size]
    /\ UNCHANGED <<vec, deq, credit, cloned, block, drain>>

\* A thread gives one of its blocks back.
DeallocateCall ==
    /\ \E t \in Threads :
        /\ thr[t].pc = "idle"
        /\ \E i \in 1..Len(thr[t].held) :
            \E r \in {DeallocateOp(thr[t], inUse, i)} :
            /\ thr' = [thr EXCEPT ![t] = r.th]
            /\ inUse' = r.use
            /\ last' = [L0 EXCEPT !.op = "deallocate", !.on = "thread",
                                  !.n = thr[t].held[i]]
    /\ UNCHANGED <<vec, deq, credit, cloned, block, drain>>

\* Clones of one WatermarkAllocator called from several threads.
NextAlloc ==
    \/ AllocateLoad
    \/ AllocateFetchAdd
    \/ DeallocateCall

\* Every wrapper that reserves and then hands over to an inner call that
\* could itself ask for memory.
NextInner ==
    \/ NextAppend
    \/ DequeInsert
    \/ ClonedDequeTryCloneFrom
    \/ VecNewIn
    \/ VecWithCapacityIn
    \/ VecPush
    \/ VecExtendFromSlice
    \/ VecDrop
    \/ VecTryClone
    \/ ClonedVecTryCloneFrom
    \/ ClonedVecDrop

Spec == Init /\ [][Next]_vars

SpecClone == Init /\ [][NextClone]_vars

SpecInner == Init /\ [][NextInner]_vars

SpecAlloc == Init /\ [][NextAlloc]_vars

SpecVec == Init /\ [][NextVec]_vars

SpecDeque == Init /\ [][NextDeque]_vars

SpecEq == Init /\ [][NextEq]_vars

SpecRing == Init /\ [][NextRing]_vars

SpecDrain == Init /\ [][NextDrain]_vars

SpecAppend == Init /\ [][NextAppend]_vars

SpecFrame == Init /\ [][NextFrame]_vars

\* ------------------------------------------------------------ properties
\* Reference list model of the deque operations.
RefInsert(l, i, x) == SubSeq(l, 1, i) \o <<x>> \o SubSeq(l, i + 1, Len(l))
RefRemove(l, i) == SubSeq(l, 1, i) \o SubSeq(l, i + 2, Len(l))

VecSame == /\ vec'.len = vec.len
           /\ Cap(vec') = Cap(vec)
           /\ VecSlice(vec') = VecSlice(vec)

DequeSame == /\ deq'.len = deq.len
             /\ Cap(deq') = Cap(deq)
             /\ DequeSeq(deq') = DequeSeq(deq)

PushOps == {"push", "push_back", "push_front"}

\* C1: whenever Vec::push returns an error, the Vec's length, capacity and
\* every existing element (in order) are exactly as before the call.
C1_PushErrorLeavesVecUnchanged ==
    [][(last'.op = "push" /\ last'.on = "vec" /\ last'.res # "ok") => VecSame]_vars

\* C1 witness: four pushes of 1,2,1,2 filled the Vec and the fifth was refused.
C1_Witness ==
    /\ last.op = "push" /\ last.on = "vec" /\ last.res = "AllocError"
    /\ Cap(vec) = 4
    /\ VecSlice(vec) = <<1, 2, 1, 2>>

\* C2: after every push_front / push_back / pop_front / pop_back /
\* insert(index <= len) / remove, the deque read through get(0..len) equals
\* what a reference list gives for the same call, and so does the returned
\* value; a call only fails when the allocator refused the growth request.
C2_DequeMatchesReferenceList ==
    [][last'.on = "deq" =>
        /\ (last'.op = "push_back" /\ last'.res = "ok")
              => DequeSeq(deq') = Append(DequeSeq(deq), last'.x)
        /\ (last'.op = "push_front" /\ last'.res = "ok")
              => DequeSeq(deq') = <<last'.x>> \o DequeSeq(deq)
        /\ (last'.op = "insert" /\ last'.res = "ok")
              => DequeSeq(deq') = RefInsert(DequeSeq(deq), last'.i, last'.x)
        /\ last'.op = "pop_front"
              => IF deq.len = 0
                 THEN DequeSeq(deq') = <<>> /\ last'.ret = None
                 ELSE /\ DequeSeq(deq') = Tail(DequeSeq(deq))
                      /\ last'.ret = Head(DequeSeq(deq))
        /\ last'.op = "pop_back"
              => IF deq.len = 0
                 THEN DequeSeq(deq') = <<>> /\ last'.ret = None
                 ELSE /\ DequeSeq(deq') = SubSeq(DequeSeq(deq), 1, deq.len - 1)
                      /\ last'.ret = DequeSeq(deq)[deq.len]
        /\ last'.op = "remove"
              => IF last'.i >= deq.len
                 THEN DequeSeq(deq') = DequeSeq(deq) /\ last'.ret = None
                 ELSE /\ DequeSeq(deq') = RefRemove(DequeSeq(deq), last'.i)
                      /\ last'.ret = DequeSeq(deq)[last'.i + 1]
        /\ (last'.op \in {"push_back", "push_front", "insert"} /\ last'.res # "ok")
              => /\ last'.res = "AllocError"
                 /\ ~Allocate(inUse, NewCapacity(Cap(deq), deq.len + 1) * ElemSize).ok
    ]_vars

\* C2 witness: an insert into the middle of a ring whose window wraps.
C2_Witness ==
    /\ last.op = "insert" /\ last.on = "deq" /\ last.res = "ok"
    /\ deq.len >= 3
    /\ last.i >= 1 /\ last.i <= deq.len - 2
    /\ deq.head + deq.len > Cap(deq)

\* C3: reserve(additional) on a Vec or VecDeque that returns an error
\* leaves capacity, length and all elements exactly as before the call.
C3_ReserveErrorLeavesUnchanged ==
    [][(last'.op = "reserve" /\ last'.res # "ok") => (VecSame /\ DequeSame)]_vars

\* C3 witness: a refused reserve on a Vec that holds elements.
C3_Witness ==
    /\ last.op = "reserve" /\ last.on = "vec" /\ last.res = "AllocError"
    /\ vec.len >= 2

\* C4: reserve(additional) that returns Ok establishes
\* capacity >= length + additional with length and elements unchanged; if
\* the capacity was already enough it calls the allocator not at all and
\* leaves the capacity unchanged.
C4_ReserveOkEnsuresCapacity ==
    [][(last'.op = "reserve" /\ last'.res = "ok") =>
        /\ last'.on = "vec" =>
            /\ Cap(vec') >= vec.len + last'.n
            /\ vec'.len = vec.len
            /\ VecSlice(vec') = VecSlice(vec)
            /\ Cap(vec) >= vec.len + last'.n =>
                 (last'.nalloc = 0 /\ last'.ndealloc = 0 /\ Cap(vec') = Cap(vec))
        /\ last'.on = "deq" =>
            /\ Cap(deq') >= deq.len + last'.n
            /\ deq'.len = deq.len
            /\ DequeSeq(deq') = DequeSeq(deq)
            /\ Cap(deq) >= deq.len + last'.n =>
                 (last'.nalloc = 0 /\ last'.ndealloc = 0 /\ Cap(deq') = Cap(deq))
    ]_vars

\* C4 witness: a reserve that had to move a non-empty Vec to a larger block.
C4_Witness ==
    /\ last.op = "reserve" /\ last.on = "vec" /\ last.res = "ok"
    /\ last.nalloc = 1 /\ last.ndealloc = 1
    /\ vec.len >= 1
    /\ Cap(vec) >= vec.len + last.n

\* C5: after a successful reserve(n), the next n pushes (Vec::push,
\* VecDeque push_front / push_back) all succeed without any allocator call
\* and with the capacity unchanged, whatever the allocator would answer.
C5_ReservedPushesNeverAllocate ==
    [][/\ (last'.op = "push" /\ last'.on = "vec" /\ credit.vec > 0) =>
            (last'.res = "ok" /\ last'.nalloc = 0 /\ last'.ndealloc = 0
             /\ Cap(vec') = Cap(vec) /\ inUse' = inUse)
       /\ (last'.op \in {"push_back", "push_front"} /\ last'.on = "deq" /\ credit.deq > 0) =>
            (last'.res = "ok" /\ last'.nalloc = 0 /\ last'.ndealloc = 0
             /\ Cap(deq') = Cap(deq) /\ inUse' = inUse)
    ]_vars

\* C5 witness: a push covered by an earlier reserve, with further covered
\* pushes to come, while the allocator would refuse any request.
C5_Witness ==
    /\ last.op = "push" /\ last.on = "vec" /\ last.res = "ok"
    /\ credit.vec >= 1
    /\ ~Allocate(inUse, ElemSize).ok

\* C6: new_in never fails and yields length 0, capacity 0 (is_empty),
\* without an allocator call: the bytes in use stay 0.
C6_NewInIsEmptyAndFree ==
    last.op = "new_in" =>
        /\ last.res = "ok" /\ last.nalloc = 0 /\ last.ndealloc = 0
        /\ inUse = 0
        /\ last.on = "vec" => (vec.alive /\ vec.len = 0 /\ Cap(vec) = 0)
        /\ last.on = "deq" => (deq.alive /\ deq.len = 0 /\ Cap(deq) = 0)

\* C6 witness: a Vec fresh from new_in.
C6_Witness == last.op = "new_in" /\ last.on = "vec" /\ vec.alive

WithCapacityShape ==
    /\ last.ndealloc = 0
    /\ inUse = last.n * ElemSize
    /\ last.on = "vec" => (vec.alive /\ vec.len = 0 /\ Cap(vec) = last.n)
    /\ last.on = "deq" => (deq.alive /\ deq.len = 0 /\ Cap(deq) = last.n)

\* C7 (as claimed): a successful with_capacity_in(n) performs exactly one
\* allocation of n * size_of::<T>() bytes and returns an empty container of
\* capacity exactly n.
C7_Original ==
    (last.op = "with_capacity_in" /\ last.res = "ok") =>
        (last.nalloc = 1 /\ WithCapacityShape)

\* C7 (amended): a successful with_capacity_in(n) returns an empty container
\* of capacity exactly n with n * size_of::<T>() bytes in use; for n > 0 it
\* got them in exactly one allocation, for n = 0 it did not call the
\* allocator.
C7_WithCapacityExact ==
    (last.op = "with_capacity_in" /\ last.res = "ok") =>
        (last.nalloc = (IF last.n = 0 THEN 0 ELSE 1) /\ WithCapacityShape)

\* C7 witness: a deque made with room for 6 elements, the whole budget.
C7_Witness ==
    /\ last.op = "with_capacity_in" /\ last.on = "deq" /\ last.res = "ok"
    /\ last.n = 6 /\ inUse = 6 * ElemSize

\* C8: a refused with_capacity_in returns an error and no container, asks
\* the allocator exactly once, and leaves its bytes in use as they were.
C8_WithCapacityRefused ==
    [][(last'.op = "with_capacity_in" /\ last'.res = "AllocError") =>
        /\ ~vec'.alive /\ ~deq'.alive
        /\ last'.nalloc = 1 /\ last'.ndealloc = 0
        /\ inUse' = inUse
    ]_vars

\* C8 witness: a deque of 7 elements does not fit the budget.
C8_Witness ==
    /\ last.op = "with_capacity_in" /\ last.on = "deq" /\ last.res = "AllocError"
    /\ last.n = 7

\* C9: Vec::extend that succeeds leaves old ++ s whatever lower bound h the
\* iterator reported (below, equal to, above |s|, or 0), and the iterator
\* is never polled again once it has answered None.
C9_ExtendContentsIndependentOfHint ==
    [][last'.op = "extend" =>
        /\ last'.nones <= 1
        /\ last'.res = "ok" =>
            /\ VecSlice(vec') = VecSlice(vec) \o last'.s
            /\ last'.nones = 1
    ]_vars

\* C9 witness: an under-estimating hint on a non-empty Vec, the element
\* past the hint going through push and growing the buffer.
C9_Witness ==
    /\ last.op = "extend" /\ last.res = "ok"
    /\ last.h >= 1 /\ last.h < Len(last.s)
    /\ last.nalloc >= 1 /\ last.ndealloc >= 1
    /\ vec.len > Len(last.s)

\* C10 (as claimed): wherever extending with s succeeds when the hint is
\* |s|, extending with the same s and any hint h > |s| succeeds too, with
\* the same contents.
C10_Original ==
    vec.alive =>
        \A s \in IterSeqs : \A h \in 0..MaxHint :
            (h > Len(s) /\ VecExtendOp(vec, inUse, s, Len(s)).res = "ok") =>
                /\ VecExtendOp(vec, inUse, s, h).res = "ok"
                /\ VecSlice(VecExtendOp(vec, inUse, s, h).v)
                     = VecSlice(VecExtendOp(vec, inUse, s, Len(s)).v)

\* C10 (amended): with a hint h > |s|, extend fails exactly when its
\* up-front reserve(h) is refused (which a budget that fits |s| more
\* elements need not prevent); when reserve(h) succeeds extend returns Ok
\* with contents old ++ s, the capacity reserved for h simply staying unused.
C10_OverstatedHintOkIfReserved ==
    [][(last'.op = "extend" /\ last'.h > Len(last'.s)) =>
        /\ last'.res = VecReserveOp(vec, inUse, last'.h).res
        /\ last'.res = "ok" =>
            /\ VecSlice(vec') = VecSlice(vec) \o last'.s
            /\ vec'.len = vec.len + Len(last'.s)
            /\ Cap(vec') >= vec.len + last'.h
    ]_vars

\* C10 witness: an over-stated hint that grew the buffer beyond what the
\* items needed.
C10_Witness ==
    /\ last.op = "extend" /\ last.res = "ok"
    /\ last.h > Len(last.s) /\ Len(last.s) >= 1
    /\ last.nalloc = 1
    /\ Cap(vec) > vec.len

\* C11 (as claimed): whenever Vec::extend returns an error, whatever the
\* size hint, the Vec's length, capacity and elements are exactly as before
\* the call.
C11_ExtendErrorLeavesVecUnchanged ==
    [][(last'.op = "extend" /\ last'.res # "ok") => VecSame]_vars

\* What extend_from_slice / extend_with / resize append on success.
Copies(n, x) == [k \in 1..n |-> x]

\* C12: Vec::extend_from_slice(s) either returns Ok with contents old ++ s
\* and length old_len + |s|, or returns an error with length, capacity and
\* elements unchanged; with an empty slice it always returns Ok.
C12_ExtendFromSliceAtomic ==
    [][last'.op = "extend_from_slice" =>
        /\ last'.res = "ok" =>
            /\ VecSlice(vec') = VecSlice(vec) \o last'.s
            /\ vec'.len = vec.len + Len(last'.s)
        /\ last'.res # "ok" => VecSame /\ inUse' = inUse
        /\ last'.s = <<>> => last'.res = "ok" /\ VecSame
    ]_vars

\* C12 witness: a slice of two refused on a Vec holding three elements in
\* four slots -- one free slot, which stays unwritten.
C12_Witness ==
    /\ last.op = "extend_from_slice" /\ last.res = "AllocError"
    /\ Len(last.s) = 2
    /\ vec.len = 3 /\ Cap(vec) = 4
    /\ vec.buf[4] = Uninit

\* How many elements the last extend_from_slice / extend_with asked room for.
Needed(l) == IF l.op = "extend_from_slice" THEN Len(l.s) ELSE l.n

\* C13 (as claimed): when extend_from_slice(s) / extend_with(n, v) has to
\* grow the Vec and succeeds, the resulting capacity equals old_len + |s|
\* (resp. old_len + n).
C13_Original ==
    [][(/\ last'.op \in {"extend_from_slice", "extend_with"}
        /\ last'.res = "ok" /\ last'.nalloc > 0)
       => Cap(vec') = vec.len + Needed(last')]_vars

\* C13 (amended): extend_from_slice(s) / extend_with(n, v) call the
\* allocator exactly when the needed count exceeds the free room; a growth
\* that succeeds yields a capacity of at least old_len + needed, namely the
\* largest of twice the old capacity, old_len + needed and 4 (the minimal
\* non-zero capacity of a 4-byte element).
C13_GrowthIsAmortized ==
    [][last'.op \in {"extend_from_slice", "extend_with"} =>
        /\ last'.nalloc > 0 <=> (/\ Needed(last') > Cap(vec) - vec.len
                                 /\ last'.res # "CapacityOverflow")
        /\ (last'.res = "ok" /\ last'.nalloc > 0) =>
            /\ Cap(vec') >= vec.len + Needed(last')
            /\ Cap(vec') >= 2 * Cap(vec)
            /\ Cap(vec') >= 4
            /\ Cap(vec') \in {2 * Cap(vec), vec.len + Needed(last'), 4}
        /\ (last'.res = "ok" /\ last'.nalloc = 0) => Cap(vec') = Cap(vec)
    ]_vars

\* C13 witness: a growth that over-allocated -- one element in a one-slot
\* Vec, a slice of two appended, four slots afterwards.
C13_Witness ==
    /\ last.op = "extend_from_slice" /\ last.res = "ok"
    /\ last.nalloc = 1 /\ last.ndealloc = 1
    /\ Len(last.s) = 2 /\ vec.len = 3 /\ Cap(vec) = 4

\* C14: Vec::resize(n, v) that grows and succeeds keeps the first len
\* elements and makes elements len..n all v (extend_with(k, v) appends
\* exactly k copies of v); with n <= len it truncates to the first n
\* elements, returns Ok and keeps the capacity; a refused growth leaves the
\* Vec unchanged.
C14_Resize ==
    [][/\ last'.op = "resize" =>
            /\ (last'.n > vec.len /\ last'.res = "ok") =>
                /\ vec'.len = last'.n
                /\ VecSlice(vec') = VecSlice(vec) \o Copies(last'.n - vec.len, last'.x)
            /\ last'.n <= vec.len =>
                /\ last'.res = "ok"
                /\ VecSlice(vec') = SubSeq(VecSlice(vec), 1, last'.n)
                /\ Cap(vec') = Cap(vec)
                /\ inUse' = inUse
            /\ last'.res # "ok" => VecSame
       /\ last'.op = "extend_with" =>
            /\ last'.res = "ok" =>
                VecSlice(vec') = VecSlice(vec) \o Copies(last'.n, last'.x)
            /\ last'.res # "ok" => VecSame
    ]_vars

\* C14 witness: resize(4, 2) grew a Vec that held <<1, 1>>.
C14_Witness ==
    /\ last.op = "resize" /\ last.res = "ok"
    /\ last.n = 4 /\ last.x = 2
    /\ VecSlice(vec) = <<1, 1, 2, 2>>

\* The first n answers of a producer with the given script.
Produced(script, n) == [k \in 1..n |-> script[((k - 1) % Len(script)) + 1]]

\* C15: Vec::resize_with(n, f) with n > len whose reservation succeeds
\* invokes f exactly n - len times, its answers filling slots len..n in the
\* order of the calls, and sets the length to n; when the reservation fails
\* f is never invoked and the Vec is unchanged; with n <= len f is never
\* invoked and the Vec is truncated to n.
C15_ResizeWith ==
    [][last'.op = "resize_with" =>
        /\ (last'.n > vec.len /\ last'.res = "ok") =>
            /\ last'.calls = last'.n - vec.len
            /\ vec'.len = last'.n
            /\ VecSlice(vec') = VecSlice(vec) \o Produced(last'.s, last'.n - vec.len)
        /\ last'.res # "ok" => last'.calls = 0 /\ VecSame
        /\ last'.n <= vec.len =>
            /\ last'.res = "ok"
            /\ last'.calls = 0
            /\ VecSlice(vec') = SubSeq(VecSlice(vec), 1, last'.n)
            /\ Cap(vec') = Cap(vec)
    ]_vars

\* C15 witness: a producer answering 1, 2, 1, ... was invoked three times
\* to take a Vec holding <<2>> to length 4.
C15_Witness ==
    /\ last.op = "resize_with" /\ last.res = "ok"
    /\ last.s = <<1, 2>> /\ last.calls = 3
    /\ VecSlice(vec) = <<2, 1, 2, 1>>

\* C16: truncate(n) with n >= len changes nothing; otherwise it keeps the
\* first n elements in order and sets the length to n; capacity and the
\* allocator's bytes in use stay as they were. clear() is truncate(0):
\* length 0, capacity unchanged, nothing changed on an empty container.
C16_TruncateAndClear ==
    [][/\ (last'.op = "truncate" /\ last'.on = "vec") =>
            /\ last'.n >= vec.len => VecSame
            /\ last'.n < vec.len =>
                /\ vec'.len = last'.n
                /\ VecSlice(vec') = SubSeq(VecSlice(vec), 1, last'.n)
            /\ Cap(vec') = Cap(vec)
            /\ inUse' = inUse
       /\ (last'.op = "clear" /\ last'.on = "vec") =>
            /\ vec'.len = 0
            /\ Cap(vec') = Cap(vec)
            /\ inUse' = inUse
            /\ vec.len = 0 => vec' = vec
       /\ (last'.op = "clear" /\ last'.on = "deq") =>
            /\ deq'.len = 0
            /\ Cap(deq') = Cap(deq)
            /\ inUse' = inUse
            /\ deq.len = 0 => DequeSame
    ]_vars

\* C16 witness: a full Vec of four cleared, its four slots kept.
C16_Witness ==
    /\ last.op = "clear" /\ last.on = "vec"
    /\ vec.len = 0 /\ Cap(vec) = 4 /\ inUse = 4 * ElemSize
    /\ credit.vec = 0

\* The clone's view: what cloned.vec / cloned.deq hold before and after a step.
ClonedVecSame == /\ cloned'.vec.alive = cloned.vec.alive
                 /\ cloned'.vec.len = cloned.vec.len
                 /\ Cap(cloned'.vec) = Cap(cloned.vec)
                 /\ VecSlice(cloned'.vec) = VecSlice(cloned.vec)

ClonedDequeSame == /\ cloned'.deq.alive = cloned.deq.alive
                   /\ cloned'.deq.len = cloned.deq.len
                   /\ Cap(cloned'.deq) = Cap(cloned.deq)
                   /\ DequeSeq(cloned'.deq) = DequeSeq(cloned.deq)

\* C17: a Vec::try_clone that succeeds returns a Vec equal element-wise to
\* the source, of capacity exactly the source's length, in a block of its
\* own taken from the shared allocator; the source's length, capacity and
\* elements are unchanged.
C17_TryCloneVec ==
    [][(last'.op = "try_clone" /\ last'.on = "vec" /\ last'.res = "ok") =>
        /\ cloned'.vec.alive
        /\ cloned'.vec.len = vec.len
        /\ VecSlice(cloned'.vec) = VecSlice(vec)
        /\ Cap(cloned'.vec) = vec.len
        /\ block'.cvec = 0 <=> vec.len = 0
        /\ block'.cvec # 0 => block'.cvec # block'.vec
        /\ inUse' = inUse + vec.len * ElemSize
        /\ VecSame /\ vec'.alive
    ]_vars

\* C17 witness: a Vec of two elements in four slots was cloned into a Vec of
\* two slots.
C17_Witness ==
    /\ last.op = "try_clone" /\ last.on = "vec" /\ last.res = "ok"
    /\ vec.len = 2 /\ Cap(vec) = 4
    /\ Cap(cloned.vec) = 2 /\ VecSlice(cloned.vec) = <<1, 2>>
    /\ inUse = 6 * ElemSize

\* The length of the container the last try_clone was called on.
SourceLen == IF last'.on = "vec" THEN vec.len ELSE deq.len

\* C18: try_clone (Vec and VecDeque) makes at most the one allocation of
\* len * size_of::<T>() bytes and returns an error exactly when the
\* allocator refuses it, i.e. when those bytes do not fit the budget on top
\* of what is in use; on error the source and the bytes in use are as
\* before the call.
C18_TryCloneFailsIffRefused ==
    [][last'.op = "try_clone" =>
        /\ last'.res # "ok" <=> (/\ SourceLen > 0
                                 /\ inUse + SourceLen * ElemSize > Watermark)
        /\ last'.nalloc = IF SourceLen > 0 THEN 1 ELSE 0
        /\ last'.res # "ok" =>
            /\ last'.res = "AllocError"
            /\ inUse' = inUse
            /\ VecSame /\ DequeSame
            /\ ~cloned'.vec.alive /\ ~cloned'.deq.alive
    ]_vars

\* C18 witness: a VecDeque of three elements in four slots (16 of the 24
\* bytes) could not be cloned.
C18_Witness ==
    /\ last.op = "try_clone" /\ last.on = "deq" /\ last.res = "AllocError"
    /\ deq.len = 3 /\ Cap(deq) = 4
    /\ inUse = 4 * ElemSize
    /\ ~cloned.deq.alive

\* C19: once try_clone has succeeded, a mutating call (push, truncate,
\* element write, pop, insert, remove, drop) on the original leaves the
\* clone's length and elements unchanged, and a mutating call on the clone
\* leaves the original's unchanged.
C19_CloneIsIndependent ==
    [][/\ (last'.on = "vec" /\ last'.op # "try_clone") => ClonedVecSame
       /\ (last'.on = "deq" /\ last'.op # "try_clone") => ClonedDequeSame
       /\ last'.on = "cvec" => VecSame /\ vec'.alive = vec.alive
       /\ last'.on = "cdeq" => DequeSame /\ deq'.alive = deq.alive
    ]_vars

\* C19 witness: an element write on the original, the clone still holding
\* the value it was cloned with.
C19_Witness ==
    /\ last.op = "index_mut" /\ last.on = "vec" /\ last.i = 0 /\ last.x = 2
    /\ cloned.vec.alive
    /\ VecSlice(vec) = <<2, 1>>
    /\ VecSlice(cloned.vec) = <<1, 1>>

\* C20: try_clone_from(target, source) that succeeds leaves the target with
\* the source's contents (its old buffer released) and the source
\* unchanged; one that fails leaves the target's length, capacity and
\* elements as before the call.
C20_TryCloneFrom ==
    [][last'.op = "try_clone_from" =>
        /\ (last'.on = "cvec" /\ last'.res = "ok") =>
            /\ VecSlice(cloned'.vec) = VecSlice(vec)
            /\ cloned'.vec.len = vec.len
            /\ inUse' = inUse + vec.len * ElemSize - Cap(cloned.vec) * ElemSize
        /\ (last'.on = "cdeq" /\ last'.res = "ok") =>
            /\ DequeSeq(cloned'.deq) = DequeSeq(deq)
            /\ cloned'.deq.len = deq.len
            /\ inUse' = inUse + deq.len * ElemSize - Cap(cloned.deq) * ElemSize
        /\ last'.res # "ok" => ClonedVecSame /\ ClonedDequeSame /\ inUse' = inUse
        /\ VecSame /\ DequeSame
    ]_vars

\* C20 witness: a refused try_clone_from, the target keeping contents that
\* differ from the source's.
C20_Witness ==
    /\ last.op = "try_clone_from" /\ last.on = "cvec" /\ last.res = "AllocError"
    /\ cloned.vec.len = 1
    /\ vec.len = 3
    /\ VecSlice(cloned.vec) # SubSeq(VecSlice(vec), 1, 1)

\* C21: a Vec equals another Vec, a slice or an array exactly when the two
\* have the same length and equal elements at every index, whatever the
\* capacities; the comparison gives the same answer with the sides swapped,
\* and ne is the negation of eq.
C21_EqualityIsElementwise ==
    /\ last.op = "eq" =>
        /\ last.eq <=> /\ vec.len = cloned.vec.len
                       /\ \A k \in 1..vec.len : vec.buf[k] = cloned.vec.buf[k]
        /\ last.ne <=> ~last.eq
        /\ VecEq(vec, cloned.vec) <=> VecEq(cloned.vec, vec)
        /\ VecNe(vec, cloned.vec) <=> VecNe(cloned.vec, vec)
    /\ last.op = "eq_slice" =>
        /\ last.eq <=> /\ vec.len = Len(last.s)
                       /\ \A k \in 1..vec.len : vec.buf[k] = last.s[k]
        /\ last.ne <=> ~last.eq
        /\ SliceEq(VecSlice(vec), last.s) <=> SliceEq(last.s, VecSlice(vec))
        /\ SliceNe(VecSlice(vec), last.s) <=> SliceNe(last.s, VecSlice(vec))

\* Two equal Vecs of different capacities have been compared.
C21_Witness ==
    /\ last.op = "eq" /\ last.eq /\ ~last.ne
    /\ vec.len = 2
    /\ Cap(vec) # Cap(cloned.vec)

\* C22: a push_front, push_back or insert on a VecDeque that returns an
\* error leaves its length, its capacity and its logical contents as they
\* were before the call, and the bytes in use too.
C22_DequePushErrorIsAtomic ==
    [][(/\ last'.op \in {"push_front", "push_back", "insert"}
        /\ last'.res # "ok")
       => /\ last'.on = "deq" => (DequeSame /\ deq'.alive)
          /\ last'.on = "cdeq" => ClonedDequeSame
          /\ inUse' = inUse]_vars

\* A deque of capacity 1 holding one element has refused a second
\* push_back: the allocator could not grow it.
C22_Witness ==
    /\ last.on = "cdeq" /\ last.op = "push_back"
    /\ last.res = "AllocError"
    /\ Cap(cloned.deq) = 1 /\ cloned.deq.len = 1

\* An insert into a full, wrapped deque has been refused.
C22_WitnessInsert ==
    /\ last.on = "deq" /\ last.op = "insert" /\ last.i = 1
    /\ last.res = "AllocError"
    /\ deq.len = Cap(deq) /\ deq.head > 0

\* C23: pop_front / pop_back on an empty VecDeque return None and change
\* nothing; on a non-empty one they return the first / last logical element,
\* the length drops by exactly 1 and the rest keeps its order; the capacity
\* stays and the allocator is not called.
C23_PopFrontAndBack ==
    [][(last'.on = "deq" /\ last'.op \in {"pop_front", "pop_back"})
       => /\ Cap(deq') = Cap(deq) /\ deq'.alive
          /\ inUse' = inUse /\ last'.nalloc = 0 /\ last'.ndealloc = 0
          /\ last'.res = "ok"
          /\ deq.len = 0 => (last'.ret = None /\ deq' = deq)
          /\ deq.len > 0 =>
              /\ deq'.len = deq.len - 1
              /\ last'.op = "pop_front" =>
                  /\ last'.ret = DequeSeq(deq)[1]
                  /\ DequeSeq(deq') = SubSeq(DequeSeq(deq), 2, deq.len)
              /\ last'.op = "pop_back" =>
                  /\ last'.ret = DequeSeq(deq)[deq.len]
                  /\ DequeSeq(deq') = SubSeq(DequeSeq(deq), 1, deq.len - 1)]_vars

\* pop_front has taken the first element of a wrapped deque whose elements
\* differ, two of them staying.
C23_Witness ==
    /\ last.on = "deq" /\ last.op = "pop_front" /\ last.ret = 1
    /\ deq.len = 2 /\ DequeSeq(deq) = <<2, 1>>
    /\ deq.head + deq.len > Cap(deq)

\* A pop on an empty deque has returned None.
C23_WitnessEmpty ==
    /\ last.on = "deq" /\ last.op = "pop_back" /\ last.ret = None
    /\ deq.alive /\ deq.len = 0 /\ Cap(deq) > 0

\* C25: remove(i) on the VecDeque never fails and never calls the
\* allocator: for i >= len it returns None and leaves the deque as it was;
\* for i < len it returns the i-th logical element, the length drops by 1
\* and the other elements keep their order; the capacity stays.
C25_Remove ==
    [][(last'.on = "deq" /\ last'.op = "remove")
       => /\ Cap(deq') = Cap(deq) /\ deq'.alive
          /\ inUse' = inUse /\ last'.nalloc = 0 /\ last'.ndealloc = 0
          /\ last'.res = "ok"
          /\ last'.i >= deq.len => (last'.ret = None /\ deq' = deq)
          /\ last'.i < deq.len =>
              /\ last'.ret = DequeSeq(deq)[last'.i + 1]
              /\ deq'.len = deq.len - 1
              /\ DequeSeq(deq') = RefRemove(DequeSeq(deq), last'.i)]_vars

\* remove(0) has taken the 1 off the front of a wrapped <<1, 1, 2>>.
C25_Witness ==
    /\ last.on = "deq" /\ last.op = "remove" /\ last.i = 0 /\ last.ret = 1
    /\ DequeSeq(deq) = <<1, 2>>
    /\ deq.head + deq.len > Cap(deq)

\* remove(len) has returned None.
C25_WitnessPastEnd ==
    /\ last.on = "deq" /\ last.op = "remove" /\ last.ret = None
    /\ deq.len = 2 /\ last.i = 2

\* The physical slot (head + i) mod capacity of the deque d.
SlotOf(d, i) == ((d.head + i) % Cap(d)) + 1

\* C24: get(i) / get_mut(i) on the VecDeque give None for every i >= len
\* and, for i < len, the element in the physical slot (head + i) mod
\* capacity; that is the i-th element of the logical sequence: the element
\* a push_back put last or a push_front put first, the others keeping
\* their indices (shifted by one after a push_front), growth and wrap of
\* the ring notwithstanding. get changes nothing; get_mut only lets that
\* one slot be written.
C24_GetIsLogicalIndex ==
    [][/\ (last'.on = "deq" /\ last'.op = "get") =>
            /\ UNCHANGED <<deq, inUse>>
            /\ last'.i >= deq.len => last'.ret = None
            /\ last'.i < deq.len =>
                /\ last'.ret = deq.buf[SlotOf(deq, last'.i)]
                /\ last'.ret \in Values
       /\ (last'.on = "deq" /\ last'.op = "get_mut") =>
            /\ UNCHANGED inUse
            /\ last'.i >= deq.len => (last'.ret = None /\ deq' = deq)
            /\ last'.i < deq.len =>
                /\ last'.ret = deq.buf[SlotOf(deq, last'.i)]
                /\ deq' = [deq EXCEPT !.buf[SlotOf(deq, last'.i)] = last'.x]
                /\ DequeGet(deq', last'.i) = last'.x
       /\ (last'.on = "deq" /\ last'.op = "push_back" /\ last'.res = "ok") =>
            /\ DequeGet(deq', deq.len) = last'.x
            /\ \A i \in 0..(deq.len - 1) : DequeGet(deq', i) = DequeGet(deq, i)
       /\ (last'.on = "deq" /\ last'.op = "push_front" /\ last'.res = "ok") =>
            /\ DequeGet(deq', 0) = last'.x
            /\ \A i \in 0..(deq.len - 1) : DequeGet(deq', i + 1) = DequeGet(deq, i)
      ]_vars

\* get(1) has read the second element of a wrapped <<2, 1, 2>> out of the
\* first physical slot.
C24_Witness ==
    /\ last.on = "deq" /\ last.op = "get" /\ last.i = 1 /\ last.ret = 1
    /\ deq.len = 3 /\ deq.head = Cap(deq) - 1
    /\ deq.buf[1] = 1 /\ deq.buf[2] = 2 /\ deq.buf[Cap(deq)] = 2

\* get past the end has returned None.
C24_WitnessPastEnd ==
    /\ last.on = "deq" /\ last.op = "get" /\ last.i = deq.len + 1
    /\ last.ret = None /\ deq.len > 0

MakeContiguousKeeps ==
    /\ last'.s = DequeSeq(deq)
    /\ DequeSeq(deq') = DequeSeq(deq)
    /\ deq'.len = deq.len /\ Cap(deq') = Cap(deq) /\ deq'.alive
    /\ inUse' = inUse /\ last'.nalloc = 0 /\ last'.ndealloc = 0

C28_WitnessHeadStays ==
    /\ last.on = "deq" /\ last.op = "make_contiguous"
    /\ deq.head > 0 /\ deq.len > 0

\* C29: drain(i..j) with i <= j <= len yields the logical elements i..j in
\* order, then None; once the Drain is released the VecDeque holds
\* old[0..i] ++ old[j..len] in order, its length reduced by exactly j - i,
\* whether all, some or none of the range was yielded; the capacity stays
\* and the allocator is not called.
C29_Drain ==
    [][/\ (last'.op \in {"drain", "drain_next", "drain_drop"}) =>
            /\ Cap(deq') = Cap(deq) /\ deq'.alive
            /\ inUse' = inUse /\ last'.nalloc = 0 /\ last'.ndealloc = 0
       /\ last'.op = "drain_next" =>
            IF Len(last.s) < last.n - last.i
            THEN /\ last'.ret = last.old[last.i + Len(last.s) + 1]
                 /\ last'.s = Append(last.s, last'.ret)
            ELSE last'.ret = None /\ last'.s = last.s
       /\ last'.op = "drain_drop" =>
            /\ last.s = SubSeq(last.old, last.i + 1, last.i + Len(last.s))
            /\ DequeSeq(deq') = SubSeq(last.old, 1, last.i)
                                  \o SubSeq(last.old, last.n + 1, Len(last.old))
            /\ deq'.len = Len(last.old) - (last.n - last.i)
            /\ ~drain'.open
      ]_vars

\* drain(1..3) of a wrapped <<1, 2, 1, 2>> was released after one item.
C29_Witness ==
    /\ last.op = "drain_drop" /\ last.i = 1 /\ last.n = 3
    /\ last.old = <<1, 2, 1, 2>> /\ last.s = <<2>>
    /\ DequeSeq(deq) = <<1, 2>>
    /\ deq.head + deq.len > Cap(deq)

\* A Drain was released after yielding its whole range.
C29_WitnessAll ==
    /\ last.op = "drain_drop" /\ last.i = 1 /\ last.n = 3
    /\ last.old = <<1, 2, 1, 2>> /\ last.s = <<2, 1>>

\* A Drain was released before it yielded anything.
C29_WitnessNone ==
    /\ last.op = "drain_drop" /\ last.i = 1 /\ last.n = 3
    /\ last.old = <<1, 2, 1, 2>> /\ last.s = <<>>

\* C26: an append(other) that succeeds makes self's logical contents
\* old_self ++ old_other, in order, and leaves other empty:
\* len(self) = old len(self) + old len(other).
C26_AppendMovesAll ==
    [][(last'.op = "append" /\ last'.res = "ok")
       => /\ last'.on = "deq" =>
              /\ DequeSeq(deq') = DequeSeq(deq) \o DequeSeq(cloned.deq)
              /\ deq'.len = deq.len + cloned.deq.len
              /\ cloned'.deq.alive /\ cloned'.deq.len = 0
          /\ last'.on = "cdeq" =>
              /\ DequeSeq(cloned'.deq) = DequeSeq(cloned.deq) \o DequeSeq(deq)
              /\ cloned'.deq.len = cloned.deq.len + deq.len
              /\ deq'.alive /\ deq'.len = 0]_vars

\* The <<2, 1>> of a two-slot deque has been appended to <<1, 2>>.
C26_Witness ==
    /\ last.op = "append" /\ last.on = "deq" /\ last.res = "ok"
    /\ last.old = <<2, 1>>
    /\ DequeSeq(deq) = <<1, 2, 2, 1>>
    /\ cloned.deq.len = 0 /\ Cap(cloned.deq) = 2

\* An append has grown the receiving deque.
C26_WitnessGrown ==
    /\ last.op = "append" /\ last.res = "ok" /\ last.nalloc > 0
    /\ last.old # <<>>

\* C27: an append(other) that fails is atomic: other keeps all its elements
\* in order, and self's length, capacity and contents are as before the
\* call; the bytes in use are, too.
C27_AppendErrorIsAtomic ==
    [][(last'.op = "append" /\ last'.res # "ok")
       => /\ DequeSame /\ deq'.alive
          /\ ClonedDequeSame
          /\ inUse' = inUse]_vars

\* An append of two elements into a full deque has been refused.
C27_Witness ==
    /\ last.op = "append" /\ last.on = "deq" /\ last.res = "AllocError"
    /\ deq.len = Cap(deq) /\ deq.len > 0
    /\ cloned.deq.len = 2 /\ DequeSeq(cloned.deq) = last.old

\* C30: a try_clone of the VecDeque that succeeds yields a deque with the
\* source's logical sequence (same length, same element at every logical
\* index) whose buffer is contiguous with the head at offset 0, also when
\* the source ring is wrapped; the source's head, length, capacity and
\* contents stay as they were.
C30_DequeCloneIsContiguous ==
    [][(last'.op = "try_clone" /\ last'.on = "deq" /\ last'.res = "ok") =>
        /\ cloned'.deq.alive
        /\ cloned'.deq.len = deq.len
        /\ \A i \in 0..(deq.len - 1) : DequeGet(cloned'.deq, i) = DequeGet(deq, i)
        /\ cloned'.deq.head = 0
        /\ \A i \in 0..(deq.len - 1) : cloned'.deq.buf[i + 1] = DequeGet(deq, i)
        /\ deq' = deq
    ]_vars

\* A wrapped <<2, 1>>, the 2 in the last of four slots and the 1 in the
\* first, has been cloned.
C30_Witness ==
    /\ last.op = "try_clone" /\ last.on = "deq" /\ last.res = "ok"
    /\ deq.len = 2 /\ deq.head = 3 /\ Cap(deq) = 4
    /\ deq.buf[4] = 2 /\ deq.buf[1] = 1
    /\ cloned.deq.head = 0 /\ cloned.deq.buf = <<2, 1>>

\* C31: in every state any sequence of successful and refused Vec and
\* VecDeque calls reaches, length <= capacity, and for the deque
\* head < capacity whenever capacity > 0; every element a call wrote sits in
\* a slot below the capacity: the first len slots (for the deque, the len
\* slots from the head on, wrapping) all hold written elements.
C31_LengthWithinCapacity ==
    /\ vec.alive =>
        /\ vec.len <= Cap(vec)
        /\ \A k \in 1..vec.len : k <= Cap(vec) /\ vec.buf[k] \in Values
    /\ deq.alive =>
        /\ deq.len <= Cap(deq)
        /\ Cap(deq) > 0 => (0 <= deq.head /\ deq.head < Cap(deq))
        /\ \A i \in 0..(deq.len - 1) :
            /\ ToPhysicalIdx(deq, i) < Cap(deq)
            /\ DequeGet(deq, i) \in Values

\* A push onto a full Vec has just been refused: length = capacity.
C31_Witness ==
    /\ last.op = "push" /\ last.on = "vec" /\ last.res = "AllocError"
    /\ vec.len = Cap(vec) /\ vec.len > 0

\* A full, wrapped deque.
C31_WitnessDeque ==
    /\ deq.alive /\ deq.len = Cap(deq) /\ deq.head > 0

\* C32: between calls, the bytes in use at the shared allocator are the sum
\* over the live containers of capacity * size_of::<T>(), after successful
\* calls and after refused ones.
C32_InUseIsSumOfCapacities ==
    inUse = (Cap(vec) + Cap(deq) + Cap(cloned.vec) + Cap(cloned.deq)) * ElemSize

\* A push has just been refused while a Vec of four slots and its clone of
\* two slots hold the whole budget.
C32_Witness ==
    /\ last.op = "push" /\ last.res = "AllocError"
    /\ vec.alive /\ cloned.vec.alive
    /\ Cap(vec) = 4 /\ Cap(cloned.vec) = 2
    /\ inUse = 6 * ElemSize

Owners == {"vec", "deq", "cvec", "cdeq"}

CapOf(v, d, c, o) ==
    IF o = "vec" THEN Cap(v) ELSE IF o = "deq" THEN Cap(d)
    ELSE IF o = "cvec" THEN Cap(c.vec) ELSE Cap(c.deq)

\* C33: every region obtained from the allocator is given back exactly
\* once, with the size it was allocated with, and belongs to no container
\* afterwards: a call makes one deallocate call per region that stops being
\* a container's buffer, the bytes in use drop by that region's size, no two
\* containers hold the same region, and once every container is destroyed
\* the bytes in use are 0.
C33_EveryRegionFreedOnce ==
    [][/\ \A o \in Owners :
            /\ block'[o] = 0 <=> CapOf(vec', deq', cloned', o) = 0
            /\ \A q \in Owners \ {o} : block'[o] # 0 => block'[o] # block'[q]
       /\ last'.ndealloc = Cardinality({o \in Owners : block[o] # 0 /\ block'[o] # block[o]})
       /\ last'.nalloc >= Cardinality({o \in Owners : block'[o] # 0 /\ block'[o] # block[o]})
       /\ last'.op = "drop" =>
            \E o \in Owners :
                /\ last'.on = o
                /\ CapOf(vec', deq', cloned', o) = 0
                /\ inUse' = inUse - CapOf(vec, deq, cloned, o) * ElemSize
                /\ last'.ndealloc = IF CapOf(vec, deq, cloned, o) > 0 THEN 1 ELSE 0
       /\ NoneAlive' => inUse' = 0
      ]_vars

\* A Vec that held a buffer has been destroyed, the last live container:
\* the bytes in use are back at 0.
C33_Witness ==
    /\ last.op = "drop" /\ last.on = "vec" /\ last.ndealloc = 1
    /\ NoneAlive /\ inUse = 0

\* C34: when a call grows a buffer, the new region is obtained while the old
\* one is still held: the call succeeds only if the bytes in use before it,
\* the old region among them, and the new region fit the budget together,
\* and then the old region is given back in one call; when the new region is
\* refused the old one is not given back and stays the container's buffer.
C34_GrowthHoldsBothRegions ==
    [][\A o \in Owners :
        (/\ last'.on = o
         /\ last'.op \in {"push", "push_back", "push_front", "insert"}
         /\ last'.nalloc > 0
         /\ CapOf(vec, deq, cloned, o) > 0)
        => /\ last'.nalloc = 1
           /\ last'.res = "ok" =>
                /\ inUse + CapOf(vec', deq', cloned', o) * ElemSize <= Watermark
                /\ last'.ndealloc = 1
                /\ block'[o] # block[o]
                /\ inUse' = inUse + (CapOf(vec', deq', cloned', o)
                                     - CapOf(vec, deq, cloned, o)) * ElemSize
           /\ last'.res # "ok" =>
                /\ last'.ndealloc = 0
                /\ block'[o] = block[o]
                /\ CapOf(vec', deq', cloned', o) = CapOf(vec, deq, cloned, o)
                /\ inUse' = inUse
      ]_vars

\* A Vec of three slots, alone on the 24-byte budget, could not grow to six:
\* the 24 new bytes would fit, but not on top of the 12 held.
C34_Witness ==
    /\ last.op = "push" /\ last.on = "vec" /\ last.res = "AllocError"
    /\ Cap(vec) = 3 /\ vec.len = 3
    /\ inUse = 3 * ElemSize
    /\ NewCapacity(3, 4) * ElemSize <= Watermark

\* A buffer has grown: two slots into four, both regions held at once.
C34_WitnessGrown ==
    /\ last.op = "push" /\ last.on = "vec" /\ last.res = "ok"
    /\ last.nalloc = 1 /\ last.ndealloc = 1
    /\ Cap(vec) = 4 /\ vec.len = 3

QuietOps ==
    {"len", "capacity", "is_empty", "get", "get_mut", "iter", "front", "back",
     "contains", "pop_front", "pop_back", "remove", "truncate", "clear",
     "make_contiguous", "drain", "drain_next", "drain_drop"}

HadRoom ==
    /\ last'.op \in {"push", "push_back", "push_front", "insert"}
    /\ last'.on = "vec" => vec.len < Cap(vec)
    /\ last'.on = "deq" => deq.len < Cap(deq)

\* C35: allocate is called only by calls that grow a capacity (or set up a
\* first buffer) and deallocate only by a growth that replaces a region and
\* by a drop. len, capacity, is_empty, get, iteration, front / back,
\* contains, pop_front, pop_back, remove, truncate, clear, make_contiguous,
\* drain, and a push / insert made while length < capacity make no allocator
\* call and leave the capacity as it was.
C35_AllocatorCalledOnlyToGrow ==
    [][/\ (last'.op \in QuietOps \/ HadRoom) =>
            /\ last'.nalloc = 0 /\ last'.ndealloc = 0
            /\ inUse' = inUse
            /\ Cap(vec') = Cap(vec) /\ Cap(deq') = Cap(deq)
            /\ block' = block
            /\ last'.res = "ok"
       /\ (last'.nalloc > 0 /\ last'.res = "ok") =>
            (Cap(vec') > Cap(vec) \/ Cap(deq') > Cap(deq))
       /\ last'.ndealloc > 0 =>
            \/ last'.op = "drop"
            \/ /\ last'.nalloc > 0 /\ last'.res = "ok"
               /\ (last'.on = "vec" => Cap(vec) > 0)
               /\ (last'.on = "deq" => Cap(deq) > 0)
      ]_vars

\* clear has emptied a deque of four slots: the 16 bytes are still held.
C35_Witness ==
    /\ last.op = "clear" /\ last.on = "deq"
    /\ deq.len = 0 /\ Cap(deq) = 4 /\ inUse = 4 * ElemSize

\* An insert into a deque with a free slot made no allocator call.
C35_WitnessRoom ==
    /\ last.op = "insert" /\ last.on = "deq" /\ last.res = "ok"
    /\ last.nalloc = 0 /\ deq.len = Cap(deq) /\ deq.len > 1

\* The least n with 2^n >= k.
RECURSIVE CeilLog2From(_, _)
CeilLog2From(k, n) == IF 2 ^ n >= k THEN n ELSE CeilLog2From(k, n + 1)

CeilLog2(k) == CeilLog2From(k, 0)

\* How many growths k pushes of one element make, each through
\* reserve(1), on a buffer of capacity cap that holds len elements.
RECURSIVE PushAllocs(_, _, _)
PushAllocs(cap, len, k) ==
    IF k = 0
    THEN 0
    ELSE IF len < cap
    THEN PushAllocs(cap, len + 1, k - 1)
    ELSE 1 + PushAllocs(NewCapacity(cap, len + 1), len + 1, k - 1)

\* The additional room the last call asked reserve for.
AskedFor == IF last'.op = "reserve" THEN last'.n ELSE 1

\* C36: growth policy. Whenever push or reserve has to grow a container of
\* capacity c to hold r = length + additional, the new capacity is at least
\* r and at least 2 * c (a first push of a 4-byte element gives capacity 4);
\* so k single-element pushes from an empty container make at most
\* ceil(log2(k)) + 1 allocations, for every k up to MaxPushes.
C36_GrowthPolicy ==
    [][/\ ( /\ last'.op \in {"push", "reserve", "push_back", "push_front", "insert"}
            /\ last'.res = "ok" /\ last'.nalloc > 0
            /\ last'.on = "vec" ) =>
               /\ vec.len + AskedFor > Cap(vec)
               /\ Cap(vec') >= vec.len + AskedFor
               /\ Cap(vec') >= 2 * Cap(vec)
               /\ last'.nalloc = 1
               /\ (Cap(vec) = 0 /\ last'.op = "push") => Cap(vec') = 4
       /\ ( /\ last'.op \in {"push", "reserve", "push_back", "push_front", "insert"}
            /\ last'.res = "ok" /\ last'.nalloc > 0
            /\ last'.on = "deq" ) =>
               /\ deq.len + AskedFor > Cap(deq)
               /\ Cap(deq') >= deq.len + AskedFor
               /\ Cap(deq') >= 2 * Cap(deq)
               /\ last'.nalloc = 1
       /\ (last'.op = "push" /\ last'.on = "vec" /\ Cap(vec) = 0) =>
               \A k \in 1..MaxPushes : PushAllocs(0, 0, k) <= CeilLog2(k) + 1
      ]_vars

\* The fourth push from empty: one allocation so far, capacity exactly 4.
C36_Witness ==
    /\ last.op = "push" /\ last.on = "vec" /\ last.res = "ok"
    /\ last.nalloc = 0 /\ vec.len = 4 /\ Cap(vec) = 4
    /\ inUse = 4 * ElemSize

\* A full buffer of two slots has doubled to four for one more element.
C36_WitnessDoubled ==
    /\ last.op = "push" /\ last.on = "vec" /\ last.res = "ok"
    /\ last.nalloc = 1 /\ vec.len = 3 /\ Cap(vec) = 4

\* reserve has grown a deque by more than one slot.
C36_WitnessReserve ==
    /\ last.op = "reserve" /\ last.on = "deq" /\ last.res = "ok"
    /\ last.nalloc = 1 /\ last.n = 3 /\ deq.len = 1 /\ Cap(deq) = 4

\* The last call asked for more than the machine can address: a capacity
\* whose byte size passes isize::MAX, or a sum past usize::MAX.
Overflows ==
    \/ /\ last'.op = "with_capacity_in"
       /\ last'.n * ElemSize > ISIZE_MAX
    \/ /\ last'.op = "reserve" /\ last'.on = "vec"
       /\ vec.len + last'.n > USIZE_MAX
    \/ /\ last'.op = "reserve" /\ last'.on = "deq"
       /\ deq.len + last'.n > USIZE_MAX

\* C37: arithmetic overflow is reported as an error of the call, never as a
\* wrapped size: with_capacity_in(n) with n * sizeof(T) past the address
\* space and reserve(additional) with length + additional past the machine
\* word return an error, make no allocator call and leave the container and
\* the counter as they were.
C37_OverflowIsAnError ==
    [][Overflows =>
          /\ last'.res = "CapacityOverflow"
          /\ last'.nalloc = 0 /\ last'.ndealloc = 0
          /\ inUse' = inUse
          /\ vec' = vec /\ deq' = deq
      ]_vars

\* reserve(usize::MAX) on a Vec that holds an element.
C37_Witness ==
    /\ last.op = "reserve" /\ last.on = "vec" /\ last.n = USIZE_MAX
    /\ last.res = "CapacityOverflow" /\ last.nalloc = 0
    /\ vec.len = 2 /\ Cap(vec) = 4 /\ inUse = 4 * ElemSize

\* with_capacity_in(usize::MAX): no container, no byte taken.
C37_WitnessWithCapacity ==
    /\ last.op = "with_capacity_in" /\ last.n = USIZE_MAX
    /\ last.res = "CapacityOverflow" /\ last.nalloc = 0
    /\ ~vec.alive /\ ~deq.alive /\ inUse = 0

\* reserve(usize::MAX) on a deque that holds an element.
C37_WitnessDeque ==
    /\ last.op = "reserve" /\ last.on = "deq" /\ last.n = USIZE_MAX
    /\ last.res = "CapacityOverflow" /\ last.nalloc = 0
    /\ deq.len = 1 /\ inUse = Cap(deq) * ElemSize

\* The wrappers that reserve and then call into the inner container.
InnerCallers ==
    {"extend_from_slice", "try_clone", "try_clone_from", "push_front",
     "push_back", "insert", "append"}

\* C38: no abort path is reachable. Whenever a wrapper hands over to an
\* inner call that would abort on a refused allocation (inner
\* extend_from_slice, push_front, push_back, insert, append, extend), the
\* reservation it has just made leaves capacity - length >= the number of
\* elements to add: the inner call's own growth step is never taken, no
\* call ends in an abort, and the allocator is asked at most once per call.
C38_NoAbortPath ==
    /\ last.res # "abort"
    /\ ~last.innerGrow
    /\ last.op \in InnerCallers => last.nalloc <= 1

\* extend_from_slice of two elements onto a full Vec of two slots: the
\* wrapper's reserve grew the buffer, the inner call found the room.
C38_Witness ==
    /\ last.op = "extend_from_slice" /\ last.on = "vec" /\ last.res = "ok"
    /\ Len(last.s) = 2 /\ last.nalloc = 1 /\ ~last.innerGrow
    /\ vec.len = 4 /\ Cap(vec) = 4

\* append onto a full deque has grown it in the wrapper's reserve.
C38_WitnessAppend ==
    /\ last.op = "append" /\ last.res = "ok" /\ last.nalloc = 1
    /\ ~last.innerGrow /\ Len(last.old) > 0

\* try_clone of a non-empty deque: one allocation, made by the wrapper.
C38_WitnessClone ==
    /\ last.op = "try_clone" /\ last.on = "deq" /\ last.res = "ok"
    /\ last.nalloc = 1 /\ ~last.innerGrow
    /\ cloned.deq.len = 3 /\ Cap(cloned.deq) = 3

\* insert into a full deque.
C38_WitnessInsert ==
    /\ last.op = "insert" /\ last.on = "deq" /\ last.res = "ok"
    /\ last.nalloc = 1 /\ ~last.innerGrow /\ deq.len = 2 /\ Cap(deq) = 4

\* What try_clone_from has to do to a target of capacity tcap holding block
\* tblock, for a source of slen elements: tcap2 / tblock2 are the target's
\* capacity and block afterwards, same says the target is as it was.
CloneFromFresh(slen, tcap, tcap2, tblock, tblock2, sblock, same) ==
    /\ last'.nalloc = (IF slen > 0 THEN 1 ELSE 0)
    /\ last'.res = "ok" <=> (slen = 0 \/ inUse + slen * ElemSize <= Watermark)
    /\ last'.res # "ok" =>
          /\ last'.res = "AllocError"
          /\ same
          /\ inUse' = inUse
          /\ last'.ndealloc = 0
          /\ tblock2 = tblock
    /\ last'.res = "ok" =>
          /\ tcap2 = slen
          /\ inUse' = inUse + (slen - tcap) * ElemSize
          /\ last'.ndealloc = (IF tcap > 0 THEN 1 ELSE 0)
          /\ slen > 0 => tblock2 \notin {tblock, sblock}

\* C39: try_clone_from never reuses the target's buffer. It asks for a
\* fresh region of source.len elements while the target's old region is
\* still counted, so it is refused exactly when in-use + source.len *
\* sizeof(T) passes the budget, also when target.capacity >= source.len; a
\* refusal leaves the target and the counter alone, and on success the
\* target lives in a new region and the old one has been released, after
\* the duplicate was built.
C39_CloneFromNeverReuses ==
    [][/\ (last'.op = "try_clone_from" /\ last'.on = "cvec") =>
            CloneFromFresh(vec.len, Cap(cloned.vec), Cap(cloned'.vec),
                           block.cvec, block'.cvec, block.vec,
                           cloned'.vec = cloned.vec)
       /\ (last'.op = "try_clone_from" /\ last'.on = "cdeq") =>
            CloneFromFresh(deq.len, Cap(cloned.deq), Cap(cloned'.deq),
                           block.cdeq, block'.cdeq, block.deq,
                           cloned'.deq = cloned.deq)
      ]_vars

\* A target of two slots was refused the duplicate of a two-element source:
\* source (16 bytes) and target (8) fill the budget of 24.
C39_Witness ==
    /\ last.op = "try_clone_from" /\ last.on = "cvec" /\ last.res = "AllocError"
    /\ vec.len = 2 /\ Cap(vec) = 4 /\ Cap(cloned.vec) = 2
    /\ inUse = Watermark

\* A target with room to spare was given a new region all the same.
C39_WitnessFresh ==
    /\ last.op = "try_clone_from" /\ last.on = "cvec" /\ last.res = "ok"
    /\ last.nalloc = 1 /\ last.ndealloc = 1
    /\ vec.len = 1 /\ Cap(cloned.vec) = 1

\* The same refusal on a deque.
C39_WitnessDeque ==
    /\ last.op = "try_clone_from" /\ last.on = "cdeq" /\ last.res = "AllocError"
    /\ deq.len <= Cap(cloned.deq) /\ deq.len > 0

RECURSIVE SumSeq(_)
SumSeq(s) == IF s = <<>> THEN 0 ELSE Head(s) + SumSeq(Tail(s))

RECURSIVE HeldUpTo(_)
HeldUpTo(t) == IF t = 0 THEN 0 ELSE SumSeq(thr[t].held) + HeldUpTo(t - 1)

\* The bytes of all the blocks the threads hold.
HandedOut == HeldUpTo(NumThreads)

\* No call is under way.
Quiescent == \A t \in Threads : thr[t].pc = "idle"

\* C40: WatermarkAllocator, after any sequence of allocate / deallocate
\* calls on clones sharing one counter, calls interleaved from several
\* threads included: the in-use counter never exceeds the watermark, and
\* between calls it equals the total size of the blocks handed out.
C40_CounterWithinWatermark ==
    /\ inUse <= Watermark
    /\ Quiescent => inUse = HandedOut

\* Two threads hold 16 bytes each on a budget of 24.
C40_BudgetExceeded ==
    /\ Quiescent
    /\ HandedOut = 8 * ElemSize /\ inUse = HandedOut
    /\ HandedOut > Watermark

\* A request was refused after its fetch_add: the counter keeps its size.
C40_RefusedButCounted ==
    /\ Quiescent
    /\ last.op = "allocate" /\ last.res = "AllocError"
    /\ inUse = HandedOut + last.n

====
